---------------------------- MODULE Spec2Model ----------------------------
(***************************************************************************)
(* A model of the building-footprint editor: the application store         *)
(* (RoofBuilderContext), the ref-based MainViewport with its two custom    *)
(* controls (BuildingEditor, BuildingMoveGizmo), and the elevation views.  *)
(*                                                                         *)
(* Numbers.  Every length, coordinate and ridge height is a fixed-point    *)
(* integer: one world unit is Unit model units, so that 0.0125 is 1.       *)
(* Angles are counted in quarter turns (1 is pi/2).  One elevation pixel   *)
(* is PixelDiv sub-pixel steps.  Time is counted in milliseconds.          *)
(***************************************************************************)
EXTENDS Integers, Sequences, FiniteSets, TLC

(***************************************************************************)
(* Bounds of the model.                                                    *)
(***************************************************************************)
MaxCoord == 1        \* pointer grid: -MaxCoord..MaxCoord steps of CoordStep
MaxDrags == 1        \* drag sessions of the custom controls in one run
MaxPos == 1          \* building centres stay within MaxPos grid steps
MaxBuildings == 2    \* buildings placed in one run

Unit == 8 * 10
CoordStep == Unit
Undefined == 0 - 1   \* an absent optional number (ridgeHeight of a flat roof)
Null == 0            \* a null reference / id

Abs(x) == IF x < 0 THEN 0 - x ELSE x
\* Math.sign
Sign(x) == IF x > 0 THEN 1 ELSE IF x < 0 THEN 0 - 1 ELSE 0
\* Math.max / Math.min
Max(a, b) == IF a >= b THEN a ELSE b
Min(a, b) == IF a <= b THEN a ELSE b

Coords == {c * CoordStep : c \in (0 - MaxCoord)..MaxCoord}
Points == [x : Coords, z : Coords]

(***************************************************************************)
(* The Building record (store/RoofBuilderContext.tsx).                     *)
(***************************************************************************)
RoofTypes == {"flat", "dualPitch"}
BuildingIds == 1..MaxBuildings

\* {...building, ...updates}: the fields named in `updates` replace those of b
Merge(b, updates) ==
  [f \in DOMAIN b |-> IF f \in DOMAIN updates THEN updates[f] ELSE b[f]]

(***************************************************************************)
(* Objects.  Building records are JavaScript objects: the controls keep a  *)
(* reference to the object they were attached to and write its fields in   *)
(* place, while updateBuilding stores a fresh copy.  heap maps the address *)
(* of every object still referenced to its fields.                         *)
(***************************************************************************)
Range(f) == {f[i] : i \in DOMAIN f}

\* the address the next object literal gets: the smallest one not in use
NewAddr(heap) ==
  CHOOSE a \in 1..(Cardinality(DOMAIN heap) + 1) :
    /\ a \notin DOMAIN heap
    /\ \A b \in 1..(a - 1) : b \in DOMAIN heap

Alloc(heap, obj) ==
  [a \in DOMAIN heap \cup {NewAddr(heap)} |->
     IF a \in DOMAIN heap THEN heap[a] ELSE obj]

\* buildings.find(b => b.id === id): the address, or Null
FindIn(heap, bs, id) ==
  IF \E i \in DOMAIN bs : heap[bs[i]].id = id
  THEN bs[CHOOSE i \in DOMAIN bs :
            /\ heap[bs[i]].id = id
            /\ \A j \in 1..(i - 1) : heap[bs[j]].id # id]
  ELSE Null

(***************************************************************************)
(* The store (RoofBuilderProvider).  A store value s has the React state   *)
(* (buildings, selectedBuildingId, placementMode, currentRoofType), the    *)
(* object heap, the id source and `dirty`: the state slots set since the   *)
(* last commit, which decide the effects the next commit runs.             *)
(***************************************************************************)
NoType == "none"    \* currentRoofType = null

\* an add that starts the collection again from the new building (C33
\* depends on the earlier buildings being kept)
AddBuildingAlone(s, b) ==
  LET a == NewAddr(s.heap) IN
  [s EXCEPT !.heap = Alloc(s.heap, b),
            !.buildings = << a >>,
            !.selectedBuildingId = b.id,
            !.dirty = s.dirty \cup {"buildings"} \cup
                      (IF s.selectedBuildingId # b.id
                       THEN {"selectedBuildingId"} ELSE {})]

\* setBuildings((prev) => [...prev, building]); setSelectedBuildingId(id)
AddBuilding(s, b) ==
  LET a == NewAddr(s.heap) IN
  [s EXCEPT !.heap = Alloc(s.heap, b),
            !.buildings = Append(s.buildings, a),
            !.selectedBuildingId = b.id,
            !.dirty = s.dirty \cup {"buildings"} \cup
                      (IF s.selectedBuildingId # b.id
                       THEN {"selectedBuildingId"} ELSE {})]

RECURSIVE MapUpdate(_, _, _, _, _)
\* prev.map(b => b.id === id ? {...b, ...updates} : b), from index i on:
\* the new heap and the new array
MapUpdate(heap, bs, i, id, updates) ==
  IF i > Len(bs) THEN [heap |-> heap, buildings |-> bs]
  ELSE IF heap[bs[i]].id = id
       THEN LET a == NewAddr(heap) IN
            MapUpdate(Alloc(heap, Merge(heap[bs[i]], updates)),
                      [bs EXCEPT ![i] = a], i + 1, id, updates)
       ELSE MapUpdate(heap, bs, i + 1, id, updates)

\* an update that stores the fields as a building of their own when no
\* building has the id (C31 depends on an update of an absent id changing
\* nothing)
UpdateOrInsert(s, id, updates) ==
  LET r == MapUpdate(s.heap, s.buildings, 1, id, updates)
      blank == [id |-> id, type |-> "flat", px |-> 0, pz |-> 0, rotation |-> 0,
                width |-> 3 * Unit, length |-> 5 * Unit, height |-> 5 * Unit,
                ridgeHeight |-> Undefined, ridgeOffset |-> Undefined]
  IN IF \E i \in DOMAIN s.buildings : s.heap[s.buildings[i]].id = id
     THEN [s EXCEPT !.heap = r.heap, !.buildings = r.buildings,
                    !.dirty = s.dirty \cup {"buildings"}]
     ELSE [s EXCEPT !.heap = Alloc(s.heap, Merge(blank, updates)),
                    !.buildings = Append(s.buildings, NewAddr(s.heap)),
                    !.dirty = s.dirty \cup {"buildings"}]

UpdateBuilding(s, id, updates) ==
  LET r == MapUpdate(s.heap, s.buildings, 1, id, updates) IN
  [s EXCEPT !.heap = r.heap, !.buildings = r.buildings,
            !.dirty = s.dirty \cup {"buildings"}]

SelectBuilding(s, id) ==
  [s EXCEPT !.selectedBuildingId = id,
            !.dirty = s.dirty \cup
                      (IF s.selectedBuildingId # id
                       THEN {"selectedBuildingId"} ELSE {})]

\* a delete that leaves the selection as it is (C32 depends on the selection
\* being cleared with the selected building)
DeleteKeepingSelection(s, id, closureSelected) ==
  [s EXCEPT !.buildings = SelectSeq(s.buildings, LAMBDA a : s.heap[a].id # id),
            !.dirty = s.dirty \cup {"buildings"}]

\* `closureSelected` is selectedBuildingId as the provider's render saw it
DeleteBuilding(s, id, closureSelected) ==
  LET keep == SelectSeq(s.buildings, LAMBDA a : s.heap[a].id # id)
      s1 == [s EXCEPT !.buildings = keep, !.dirty = s.dirty \cup {"buildings"}]
  IN IF closureSelected = id THEN SelectBuilding(s1, Null) ELSE s1

SetPlacementMode(s, mode) ==
  [s EXCEPT !.placementMode = mode,
            !.dirty = s.dirty \cup
                      (IF s.placementMode # mode THEN {"placementMode"} ELSE {})]

SetCurrentRoofType(s, type) ==
  [s EXCEPT !.currentRoofType = type,
            !.dirty = s.dirty \cup
                      (IF s.currentRoofType # type THEN {"currentRoofType"} ELSE {})]

(***************************************************************************)
(* Geometry on the ground plane.  A transform m has a position (px, pz)    *)
(* and a rotation about Y in quarter turns; Babylon's RotationY maps       *)
(* (x, z) to (x cos + z sin, -x sin + z cos).                              *)
(***************************************************************************)
Cos(q) == LET r == q % 4 IN IF r = 0 THEN 1 ELSE IF r = 2 THEN 0 - 1 ELSE 0
Sin(q) == LET r == q % 4 IN IF r = 1 THEN 1 ELSE IF r = 3 THEN 0 - 1 ELSE 0

RotateY(v, q) ==
  [x |-> v.x * Cos(q) + v.z * Sin(q), z |-> v.z * Cos(q) - v.x * Sin(q)]

\* Vector3.TransformCoordinates(v, worldMatrix)
LocalToWorld(v, m) ==
  LET r == RotateY(v, m.rot) IN [x |-> r.x + m.px, z |-> r.z + m.pz]

\* a conversion that undoes the translation of the world matrix and not its
\* rotation (C15 depends on the drag being read in the building's own frame)
WorldToCentred(v, m) == [x |-> v.x - m.px, z |-> v.z - m.pz]

\* Vector3.TransformCoordinates(v, Matrix.Invert(worldMatrix))
WorldToLocal(v, m) ==
  RotateY([x |-> v.x - m.px, z |-> v.z - m.pz], 0 - m.rot)

\* Math.atan2(x, z) in quarter turns, for a vector along an axis
Atan2(x, z) ==
  IF x > 0 THEN 1 ELSE IF x < 0 THEN 0 - 1 ELSE IF z < 0 THEN 2 ELSE 0

AxisAligned(v) == v.x = 0 \/ v.z = 0

(***************************************************************************)
(* A world value w is what one handler reads and writes: the store s, the  *)
(* MainViewport v, the BuildingEditor e, the BuildingMoveGizmo g, and two  *)
(* observations of the handler's run: n, the notifications the controls    *)
(* fired, and overlap, whether both controls were attached at a time.      *)
(***************************************************************************)
Attached(c) == c.building # Null

\* MainViewport's observers of onBuildingModified / onBuildingMoved:
\* updateBuilding(b.id, {...b, position: {x: b.position.x, z: b.position.z}})
OnBuildingModified(w, a) ==
  [w EXCEPT !.s = UpdateBuilding(w.s, w.s.heap[a].id, w.s.heap[a]),
            !.n = w.n + 1]

(***************************************************************************)
(* BuildingEditor (scene/gizmos/BuildingEditor.ts).                        *)
(***************************************************************************)
Corners == {"topLeft", "topRight", "bottomLeft", "bottomRight"}
Edges == {"top", "right", "bottom", "left"}
ResizeHandles == Corners \cup Edges

\* metadata.originalPosition of a resize handle, in halves (1 is 0.5)
OriginalPosition(h) ==
  [x |-> IF h \in {"topLeft", "bottomLeft", "left"} THEN 0 - 1
         ELSE IF h \in {"topRight", "bottomRight", "right"} THEN 1 ELSE 0,
   z |-> IF h \in {"topLeft", "topRight", "top"} THEN 0 - 1
         ELSE IF h \in {"bottomLeft", "bottomRight", "bottom"} THEN 1 ELSE 0]

Axis(h) == IF h \in {"left", "right"} THEN "x" ELSE "z"

\* a handle's metadata before any drag has started on it
NoResizeMeta ==
  [set |-> FALSE, initialWidth |-> 0, initialLength |-> 0,
   m |-> [px |-> 0, pz |-> 0, rot |-> 0]]
NoRotMeta ==
  [set |-> FALSE, initialRotation |-> 0, cx |-> 0, cz |-> 0,
   isDragging |-> FALSE, hasInitialDragAngle |-> FALSE, initialDragAngle |-> 0]
NoMoveMeta == [set |-> FALSE, ipx |-> 0, ipz |-> 0]

\* the editor after its constructor
NewEditor ==
  [building |-> Null, targetMesh |-> Null,
   rootEnabled |-> FALSE, rotEnabled |-> FALSE,
   root |-> [px |-> 0, pz |-> 0, rot |-> 0],
   w |-> Unit, l |-> Unit,
   rotParent |-> [px |-> 0, pz |-> 0, rot |-> 0],
   rotHandleZ |-> 0 - 2 * Unit,
   meta |-> [h \in ResizeHandles |-> NoResizeMeta],
   rotMeta |-> NoRotMeta, dragMeta |-> NoMoveMeta]

\* a detach that hides the editor and keeps its references (C4 depends on
\* detach clearing them)
EditorHide(w) ==
  [w EXCEPT !.e.rootEnabled = FALSE, !.e.rotEnabled = FALSE]

EditorDetach(w) ==
  [w EXCEPT !.e.building = Null, !.e.targetMesh = Null,
            !.e.rootEnabled = FALSE, !.e.rotEnabled = FALSE]

\* an update that moves the editor to the mesh and leaves the handles and
\* the bounding box as they were (C17 depends on their being re-derived from
\* the building's size)
SyncRootOnly(w) ==
  IF w.e.building = Null \/ w.e.targetMesh = Null THEN w
  ELSE LET b == w.s.heap[w.e.building]
           mesh == w.v.meshes[w.e.targetMesh]
       IN [w EXCEPT !.e.root = [px |-> mesh.px, pz |-> mesh.pz, rot |-> mesh.rot],
                    !.e.rotParent =
                       [px |-> mesh.px, pz |-> mesh.pz, rot |-> b.rotation]]

UpdateEditorVisuals(w) ==
  IF w.e.building = Null \/ w.e.targetMesh = Null THEN w
  ELSE LET b == w.s.heap[w.e.building]
           mesh == w.v.meshes[w.e.targetMesh]
       IN [w EXCEPT !.e.w = b.width, !.e.l = b.length,
                    !.e.root = [px |-> mesh.px, pz |-> mesh.pz, rot |-> mesh.rot],
                    !.e.rotParent =
                       [px |-> mesh.px, pz |-> mesh.pz, rot |-> b.rotation],
                    !.e.rotHandleZ = 0 - (b.length \div 2) - (Unit \div 2)]

NotifyBuildingModified(w) ==
  IF w.e.building # Null THEN OnBuildingModified(w, w.e.building) ELSE w

EditorAttach(w, a, meshId) ==
  LET w1 == EditorDetach(w)
      w2 == UpdateEditorVisuals(
              [w1 EXCEPT !.e.building = a, !.e.targetMesh = meshId])
  IN [w2 EXCEPT !.e.rootEnabled = TRUE, !.e.rotEnabled = TRUE,
                !.overlap = w2.overlap \/ Attached(w2.g)]

\* corner.position / edge.position: originalPosition (+-0.5) scaled by the
\* size the editor last showed
HandleLocalPosition(e, h) ==
  [x |-> (OriginalPosition(h).x * e.w) \div 2,
   z |-> (OriginalPosition(h).z * e.l) \div 2]

\* _boundingBox.scaling
BoundingBoxScaling(e) == [x |-> e.w, z |-> e.l]

\* corner.getAbsolutePosition(): the handle is a child of the root node
HandleAbsolutePosition(e, h) == LocalToWorld(HandleLocalPosition(e, h), e.root)

\* onDragStart of a corner or an edge handle
EditorResizeDragStart(w, h) ==
  IF w.e.building # Null /\ w.e.targetMesh # Null
  THEN LET b == w.s.heap[w.e.building]
           mesh == w.v.meshes[w.e.targetMesh]
       IN [w EXCEPT !.e.meta[h] =
             [set |-> TRUE, initialWidth |-> b.width, initialLength |-> b.length,
              m |-> [px |-> mesh.px, pz |-> mesh.pz, rot |-> mesh.rot]]]
  ELSE w

\* a resize step that commits the computed size as it is (C1 depends on
\* the minimum that MinSize applies)
NoMinSize(size) == size

\* Math.max(1, size)
MinSize(size) == Max(Unit, size)

\* the size a corner drag step commits: md the handle's metadata, drag and
\* corner the pointer and the handle in the local space of the mesh
CornerSize(md, drag, corner) ==
  LET newWidth == 2 * Abs(drag.x)
      newLength == 2 * Abs(drag.z)
      isDragXExpanding == /\ Sign(drag.x) = Sign(corner.x)
                          /\ Abs(drag.x) > Abs(corner.x)
      isDragZExpanding == /\ Sign(drag.z) = Sign(corner.z)
                          /\ Abs(drag.z) > Abs(corner.z)
      finalWidth == IF isDragXExpanding THEN Max(newWidth, md.initialWidth)
                    ELSE newWidth
      finalLength == IF isDragZExpanding THEN Max(newLength, md.initialLength)
                     ELSE newLength
  IN [width |-> MinSize(finalWidth), length |-> MinSize(finalLength)]

\* an edge drag step that takes both dimensions from the pointer, as a corner
\* does (C13 depends on the edge writing its own axis only)
EdgeSizeBothAxes(axis, md, drag, edge) ==
  [width |-> MinSize(2 * Abs(drag.x)), length |-> MinSize(2 * Abs(drag.z))]

\* the size an edge drag step commits
EdgeSize(axis, md, drag, edge) ==
  LET dragC == IF axis = "x" THEN drag.x ELSE drag.z
      edgeC == IF axis = "x" THEN edge.x ELSE edge.z
      initial == IF axis = "x" THEN md.initialWidth ELSE md.initialLength
      calculated == 2 * Abs(dragC)
      edgeSign == IF Sign(edgeC) # 0 THEN Sign(edgeC) ELSE 1
      isExpanding == Sign(dragC) = edgeSign /\ Abs(dragC) > Abs(edgeC)
      new == IF isExpanding THEN Max(calculated, initial) ELSE calculated
  IN [width |-> MinSize(IF axis = "x" THEN new ELSE md.initialWidth),
      length |-> MinSize(IF axis = "z" THEN new ELSE md.initialLength)]

\* a resize that keeps the side opposite to the handle where it is, moving
\* the centre by half of the change (C14 depends on the centre being anchored)
UpdateDimensionsAndCentre(w, width, length) ==
  IF w.e.building = Null \/ w.e.targetMesh = Null THEN w
  ELSE LET b == w.s.heap[w.e.building] IN
       NotifyBuildingModified(UpdateEditorVisuals(
         [w EXCEPT !.s.heap[w.e.building].width = width,
                   !.s.heap[w.e.building].length = length,
                   !.s.heap[w.e.building].px = b.px + (width - b.width) \div 2,
                   !.s.heap[w.e.building].pz = b.pz + (length - b.length) \div 2]))

UpdateBuildingDimensions(w, width, length) ==
  IF w.e.building = Null \/ w.e.targetMesh = Null THEN w
  ELSE NotifyBuildingModified(UpdateEditorVisuals(
         [w EXCEPT !.s.heap[w.e.building].width = width,
                   !.s.heap[w.e.building].length = length]))

\* onDrag of a corner or an edge handle.  PointerDragBehavior moves the
\* handle it is attached to before it notifies: `handleAt` is where the
\* handle then is, the pointer or the place the editor last gave it.
EditorResizeDrag(w, h, p, handleAt) ==
  IF w.e.building = Null \/ w.e.targetMesh = Null THEN w
  ELSE LET md == w.e.meta[h]
           drag == WorldToLocal(p, md.m)
           handle == WorldToLocal(handleAt, md.m)
           size == IF h \in Corners THEN CornerSize(md, drag, handle)
                   ELSE EdgeSize(Axis(h), md, drag, handle)
       IN UpdateBuildingDimensions(w, size.width, size.length)

EditorRotationDragStart(w) ==
  IF w.e.building # Null /\ w.e.targetMesh # Null
  THEN LET mesh == w.v.meshes[w.e.targetMesh] IN
       [w EXCEPT !.e.rotMeta =
          [set |-> TRUE, initialRotation |-> w.s.heap[w.e.building].rotation,
           cx |-> mesh.px, cz |-> mesh.pz, isDragging |-> FALSE,
           hasInitialDragAngle |-> FALSE, initialDragAngle |-> 0]]
  ELSE w

UpdateBuildingRotation(w, rotation) ==
  IF w.e.building = Null \/ w.e.targetMesh = Null THEN w
  ELSE [w EXCEPT !.s.heap[w.e.building].rotation = rotation,
                 !.v.meshes[w.e.targetMesh].rot = rotation]

\* a capture step that takes the angle of every move (C2 depends on the
\* isDragging test of CaptureDragAngle)
CaptureEveryAngle(md, currentAngle) ==
  [md EXCEPT !.initialDragAngle = currentAngle,
             !.hasInitialDragAngle = TRUE, !.isDragging = TRUE]

\* the metadata after the capture step of a rotation drag move
CaptureDragAngle(md, currentAngle) ==
  IF ~md.isDragging
  THEN [md EXCEPT !.initialDragAngle = currentAngle,
                  !.hasInitialDragAngle = TRUE, !.isDragging = TRUE]
  ELSE md

\* onDrag of the rotation handle
EditorRotationDrag(w, p) ==
  IF w.e.building = Null \/ w.e.targetMesh = Null THEN w
  ELSE LET md0 == w.e.rotMeta
           currentAngle == Atan2(p.x - md0.cx, p.z - md0.cz)
           md == CaptureDragAngle(md0, currentAngle)
           angleDiff == currentAngle - md.initialDragAngle
       IN UpdateBuildingRotation([w EXCEPT !.e.rotMeta = md],
                                 md.initialRotation + angleDiff)

EditorMoveDragStart(w) ==
  IF w.e.building # Null /\ w.e.targetMesh # Null
  THEN LET mesh == w.v.meshes[w.e.targetMesh] IN
       [w EXCEPT !.e.dragMeta = [set |-> TRUE, ipx |-> mesh.px, ipz |-> mesh.pz]]
  ELSE w

\* onDrag of the central drag handle, delta the pointer's movement
EditorMoveDrag(w, delta) ==
  IF w.e.building = Null \/ w.e.targetMesh = Null THEN w
  ELSE LET mesh == w.v.meshes[w.e.targetMesh]
           x == mesh.px + delta.x
           z == mesh.pz + delta.z
       IN [w EXCEPT !.v.meshes[w.e.targetMesh].px = x,
                    !.v.meshes[w.e.targetMesh].pz = z,
                    !.e.root.px = x, !.e.root.pz = z,
                    !.s.heap[w.e.building].px = x,
                    !.s.heap[w.e.building].pz = z]

\* onDragEnd of handle h
EditorDragEnd(w, h) ==
  IF h = "rotation"
  THEN NotifyBuildingModified(
         IF w.e.rotMeta.set THEN [w EXCEPT !.e.rotMeta.isDragging = FALSE]
         ELSE w)
  ELSE NotifyBuildingModified(w)

(***************************************************************************)
(* BuildingMoveGizmo.                                                      *)
(***************************************************************************)
GizmoHandles == {"center", "xShaft", "xArrow", "zShaft", "zArrow"}

\* the axis an arrow mesh was set up with; the center handle has none
ArrowAxis(h) ==
  IF h \in {"xShaft", "xArrow"} THEN "x"
  ELSE IF h \in {"zShaft", "zArrow"} THEN "z" ELSE "none"

\* the gizmo after its constructor
NewGizmo ==
  [building |-> Null, targetMesh |-> Null, rootEnabled |-> FALSE,
   root |-> [px |-> 0, pz |-> 0], guideLines |-> FALSE,
   meta |-> [h \in GizmoHandles |-> NoMoveMeta]]

GizmoDetach(w) ==
  [w EXCEPT !.g.building = Null, !.g.targetMesh = Null,
            !.g.rootEnabled = FALSE, !.g.guideLines = FALSE]

GizmoAttach(w, a, meshId) ==
  LET w1 == GizmoDetach(w)
      mesh == w.v.meshes[meshId]
  IN [w1 EXCEPT !.g.building = a, !.g.targetMesh = meshId,
                !.g.root = [px |-> mesh.px, pz |-> mesh.pz],
                !.g.rootEnabled = TRUE,
                !.overlap = w1.overlap \/ Attached(w1.e)]

NotifyBuildingMoved(w) ==
  IF w.g.building # Null THEN OnBuildingModified(w, w.g.building) ELSE w

\* onDragStart of the center handle or of an arrow mesh
GizmoDragStart(w, h) ==
  IF w.g.building # Null /\ w.g.targetMesh # Null
  THEN LET mesh == w.v.meshes[w.g.targetMesh] IN
       [w EXCEPT !.g.meta[h] = [set |-> TRUE, ipx |-> mesh.px, ipz |-> mesh.pz],
                 !.g.guideLines = TRUE]
  ELSE w

\* every handle applying the whole pointer delta (C3 depends on the axis
\* test of ConstrainedDelta)
WholeDelta(h, delta) == delta

\* the movement handle h applies for a pointer delta
ConstrainedDelta(h, delta) ==
  IF h = "center" THEN delta
  ELSE [x |-> IF ArrowAxis(h) = "x" THEN delta.x ELSE 0,
        z |-> IF ArrowAxis(h) = "z" THEN delta.z ELSE 0]

\* a drag step that also notifies onBuildingMovedObservable (C18 depends on
\* the steps writing the building and the mesh without notifying)
GizmoDragNotifying(w, h, delta) ==
  IF w.g.building = Null \/ w.g.targetMesh = Null THEN w
  ELSE LET mesh == w.v.meshes[w.g.targetMesh]
           d == ConstrainedDelta(h, delta)
           x == mesh.px + d.x
           z == mesh.pz + d.z
       IN NotifyBuildingMoved(
            [w EXCEPT !.v.meshes[w.g.targetMesh].px = x,
                      !.v.meshes[w.g.targetMesh].pz = z,
                      !.g.root = [px |-> x, pz |-> z],
                      !.s.heap[w.g.building].px = x,
                      !.s.heap[w.g.building].pz = z])

\* onDrag of the center handle or of an arrow mesh
GizmoDrag(w, h, delta) ==
  IF w.g.building = Null \/ w.g.targetMesh = Null THEN w
  ELSE LET mesh == w.v.meshes[w.g.targetMesh]
           d == ConstrainedDelta(h, delta)
           x == mesh.px + d.x
           z == mesh.pz + d.z
       IN [w EXCEPT !.v.meshes[w.g.targetMesh].px = x,
                    !.v.meshes[w.g.targetMesh].pz = z,
                    !.g.root = [px |-> x, pz |-> z],
                    !.s.heap[w.g.building].px = x,
                    !.s.heap[w.g.building].pz = z]

GizmoDragEnd(w) ==
  NotifyBuildingMoved([w EXCEPT !.g.guideLines = FALSE])

(***************************************************************************)
(* MainViewport, the version with the two custom controls and the refs     *)
(* (components/main-viewport.tsx).  A viewport value v has the component's *)
(* state currentEditorMode, its refs, and `rendered`: the store values the *)
(* last render closed over.                                                *)
(***************************************************************************)
EmptyMap == << >>   \* buildingMeshesRef.current after clear()
NoMode == "none"     \* currentEditorMode = null
GhostId == 0 - 2     \* id: 'ghost', which no uuid equals
NoGhost == [exists |-> FALSE, enabled |-> FALSE, px |-> 0, pz |-> 0,
            type |-> NoType, id |-> Null]

SetCurrentEditorMode(w, mode) ==
  [w EXCEPT !.v.currentEditorMode = mode,
            !.s.dirty = w.s.dirty \cup
              (IF w.v.currentEditorMode # mode THEN {"currentEditorMode"} ELSE {})]

\* createBuildingMesh and the isPickable assignment of the buildings effect
NewMesh(b, placementMode) ==
  [px |-> b.px, pz |-> b.pz, rot |-> b.rotation, pickable |-> ~placementMode]

RECURSIVE CreateMeshes(_, _, _)
\* buildings.forEach of the buildings effect, from index i on; r is the
\* render the effect belongs to
CreateMeshes(w, r, i) ==
  IF i > Len(r.buildings) THEN w
  ELSE LET a == r.buildings[i]
           b == w.s.heap[a]
           w1 == [w EXCEPT !.v.meshes =
                    [id \in DOMAIN w.v.meshes \cup {b.id} |->
                       IF id = b.id THEN NewMesh(b, r.placementMode)
                       ELSE w.v.meshes[id]]]
           w2 == IF b.id = r.selectedBuildingId
                 THEN IF r.currentEditorMode = "move" THEN GizmoAttach(w1, a, b.id)
                      ELSE IF r.currentEditorMode = "edit"
                           THEN EditorAttach(w1, a, b.id)
                           ELSE w1
                 ELSE w1
       IN CreateMeshes(w2, r, i + 1)

\* useEffect(..., [buildings, selectedBuildingId, currentEditorMode])
BuildingsEffect(w, r) ==
  CreateMeshes(GizmoDetach(EditorDetach([w EXCEPT !.v.meshes = EmptyMap])), r, 1)

\* a ghost effect that creates the new ghost mesh and leaves the one the ref
\* held in the scene (C23 depends on the dispose at the head of the effect)
GhostEffectKeepingOld(w, r) ==
  IF r.placementMode /\ r.currentRoofType # NoType
  THEN [w EXCEPT !.v.ghost = [exists |-> TRUE, enabled |-> FALSE, px |-> 0,
                              pz |-> 0, type |-> r.currentRoofType,
                              id |-> GhostId],
                 !.v.ghosts = Min(w.v.ghosts + 1, 2)]
  ELSE [w EXCEPT !.v.ghost = NoGhost]

\* useEffect(..., [placementMode, currentRoofType]); v.ghosts counts the
\* ghost meshes in the scene that have not been disposed
GhostEffect(w, r) ==
  LET disposed == IF w.v.ghost.exists THEN w.v.ghosts - 1 ELSE w.v.ghosts IN
  IF r.placementMode /\ r.currentRoofType # NoType
  THEN [w EXCEPT !.v.ghost = [exists |-> TRUE, enabled |-> FALSE, px |-> 0,
                              pz |-> 0, type |-> r.currentRoofType,
                              id |-> GhostId],
                 !.v.ghosts = disposed + 1]
  ELSE [w EXCEPT !.v.ghost = NoGhost, !.v.ghosts = disposed]

(***************************************************************************)
(* The elevation view (ElevationViewport).  The repository has three       *)
(* versions of the component: "slider", an SVG silhouette with a range     *)
(* input; "babylon", a Babylon scene with the range input and a drag of    *)
(* the roof mesh; "handles", a side view with two drag handles.  An        *)
(* elevation value el has the version mounted, the component's state and   *)
(* refs, and the closures of the listeners a mouse-down registered.  Mouse *)
(* coordinates are in thirds of a pixel, ridge heights in 1/80 as every    *)
(* length.                                                                 *)
(***************************************************************************)
ElevationVersions == {"slider", "babylon", "handles"}

SubPixel == 3
MIN_RIDGE_HEIGHT == 0
MAX_RIDGE_HEIGHT == (15 * Unit) \div 4     \* 3.75
MIN_VISUAL_HEIGHT == 20
MAX_VISUAL_HEIGHT == 120

\* the value is neither undefined nor 0
Truthy(v) == v # Undefined /\ v # 0

\* a clamp that comes half of the way down to the maximum at each
\* application (C22 depends on the clamp reaching the limit at once)
ClampRidgeHalfway(v) ==
  IF v > MAX_RIDGE_HEIGHT THEN (v + MAX_RIDGE_HEIGHT) \div 2
  ELSE Max(MIN_RIDGE_HEIGHT, v)

\* Math.max(MIN_RIDGE_HEIGHT, Math.min(v, MAX_RIDGE_HEIGHT)) with the
\* minimum only (C7 depends on the upper limit)
NoUpperLimit(v) == Max(MIN_RIDGE_HEIGHT, v)

\* Math.max(MIN_RIDGE_HEIGHT, Math.min(v, MAX_RIDGE_HEIGHT))
ClampRidge(v) == Max(MIN_RIDGE_HEIGHT, Min(v, MAX_RIDGE_HEIGHT))

\* deltaY * heightChangePerPixel
HeightChange(deltaY) ==
  (deltaY * (MAX_RIDGE_HEIGHT - MIN_RIDGE_HEIGHT))
    \div ((MAX_VISUAL_HEIGHT - MIN_VISUAL_HEIGHT) * SubPixel)

\* the attributes min, max and step of the range input
SliderMin == (2 * Unit) \div 10
SliderMax == 3 * Unit
SliderStep == Unit \div 10

\* Math.max(0.2, ...) of the roof drag
RoofMinHeight == (2 * Unit) \div 10

\* deltaY * 0.05
RoofHeightChange(deltaY) == (deltaY * Unit) \div (20 * SubPixel)

NoElevationDrag ==
  [listening |-> FALSE, isDragging |-> FALSE, y0 |-> 0, h0 |-> 0,
   id |-> Null, type |-> NoType]

\* selectedBuildingId and selectedBuilding as the pointer observer of the
\* Babylon version closed over them
NoObserver == [id |-> Null, type |-> NoType, ridgeHeight |-> Undefined]

NewElevation(version) ==
  [version |-> version, sliderValue |-> Unit, clientY |-> 0, drags |-> 0,
   drag |-> NoElevationDrag, observer |-> NoObserver, roof |-> FALSE]

\* the effects of ElevationViewport after a render r whose changed state
\* slots are deps
ElevationEffects(w, r, deps) ==
  LET a == FindIn(w.s.heap, r.buildings, r.selectedBuildingId)
      provider == deps \cap {"buildings", "selectedBuildingId",
                             "placementMode", "currentRoofType"} # {}
      shown == deps \cap {"buildings", "selectedBuildingId"} # {}
      dual == a # Null /\ w.s.heap[a].type = "dualPitch"
      \* the scene effect: deps [selectedBuildingId, updateBuilding]
      w1 == IF w.el.version = "babylon" /\ provider
            THEN [w EXCEPT !.el.roof = FALSE,
                           !.el.observer =
                              IF a = Null
                              THEN [NoObserver EXCEPT !.id = r.selectedBuildingId]
                              ELSE [id |-> r.selectedBuildingId,
                                    type |-> w.s.heap[a].type,
                                    ridgeHeight |-> w.s.heap[a].ridgeHeight]]
            ELSE w
      \* the mesh effect: deps [buildings, selectedBuildingId]
      w2 == IF w.el.version = "babylon" /\ shown
            THEN [w1 EXCEPT !.el.roof = dual] ELSE w1
  IN IF /\ w.el.version \in {"slider", "babylon"} /\ shown
        /\ r.selectedBuildingId # Null /\ dual
        /\ Truthy(w.s.heap[a].ridgeHeight)
     THEN [w2 EXCEPT !.el.sliderValue = w.s.heap[a].ridgeHeight]
     ELSE w2

\* handleSliderChange, with the closure of the last render
HandleSliderChange(w, value) ==
  LET r == w.v.rendered
      a == FindIn(w.s.heap, r.buildings, r.selectedBuildingId)
      w1 == [w EXCEPT !.el.sliderValue = value]
  IN IF r.selectedBuildingId # Null /\ a # Null /\ w.s.heap[a].type = "dualPitch"
     THEN [w1 EXCEPT !.s = UpdateBuilding(w.s, r.selectedBuildingId,
                                          [ridgeHeight |-> value])]
     ELSE w1

\* POINTERDOWN of the Babylon version's pointer observer, the pick having
\* hit a mesh whose name starts with 'roof-'
RoofPointerDown(w, y) ==
  LET o == w.el.observer IN
  IF o.id # Null
  THEN [w EXCEPT !.el.clientY = y,
                 !.el.drag = [listening |-> TRUE, isDragging |-> FALSE,
                              y0 |-> y,
                              h0 |-> IF Truthy(o.ridgeHeight) THEN o.ridgeHeight
                                     ELSE Unit,
                              id |-> o.id, type |-> o.type]]
  ELSE [w EXCEPT !.el.clientY = y]

\* moveHandler
RoofMoveHandler(w, y) ==
  LET md == w.el.drag
      newHeight == Max(RoofMinHeight, md.h0 + RoofHeightChange(md.y0 - y))
      w1 == [w EXCEPT !.el.clientY = y]
  IN IF md.type = "dualPitch"
     THEN [w1 EXCEPT !.s = UpdateBuilding(w.s, md.id, [ridgeHeight |-> newHeight]),
                     !.el.sliderValue = newHeight]
     ELSE w1

\* upHandler
RoofUpHandler(w) == [w EXCEPT !.el.drag = NoElevationDrag]

\* currentRidgeHeight of the render r
CurrentRidgeHeight(w, r) ==
  LET a == FindIn(w.s.heap, r.buildings, r.selectedBuildingId) IN
  IF a # Null /\ w.s.heap[a].ridgeHeight # Undefined
  THEN ClampRidge(w.s.heap[a].ridgeHeight) ELSE 0

\* handleHandleMouseDown, with the closure of the last render
HandleHandleMouseDown(w, y) ==
  LET r == w.v.rendered IN
  IF r.selectedBuildingId = Null THEN [w EXCEPT !.el.clientY = y]
  ELSE [w EXCEPT !.el.clientY = y,
                 !.el.drag = [listening |-> TRUE, isDragging |-> TRUE,
                              y0 |-> y, h0 |-> CurrentRidgeHeight(w, r),
                              id |-> r.selectedBuildingId, type |-> NoType]]

\* the building a mouse-move of the handle drag writes: the one selected in
\* the store now (C9 depends on the listener keeping the id of its render)
SelectedNow(w) == w.s.selectedBuildingId

\* selectedBuildingId as the handleMouseMove registered at mouse-down closed
\* over it
SelectedAtMouseDown(w) == w.el.drag.id

\* handleMouseMove
HandleMouseMove(w, y) ==
  LET md == w.el.drag
      w1 == [w EXCEPT !.el.clientY = y]
  IN IF ~md.isDragging \/ SelectedAtMouseDown(w) = Null THEN w1
     ELSE LET deltaY == md.y0 - y
              newRidgeHeight == ClampRidge(md.h0 + HeightChange(deltaY))
          IN [w1 EXCEPT !.s = UpdateBuilding(w.s, SelectedAtMouseDown(w),
                                             [ridgeHeight |-> newRidgeHeight])]

\* a mouse-up that leaves the drag state and the listeners as they are
\* (C30 depends on mouse-up ending the session)
HandleMouseUpKeepsDragging(w) == w

\* handleMouseUp
HandleMouseUp(w) ==
  [w EXCEPT !.el.drag = [@ EXCEPT !.isDragging = FALSE, !.listening = FALSE,
                                  !.id = Null]]

(***************************************************************************)
(* MainViewport, the version with Babylon's GizmoManager                   *)
(* (components/main-viewport.tsx, the first component of the file).  A     *)
(* value gm has the three enabled flags of the manager, the mesh it is     *)
(* attached to, the PlaneRotationGizmo of planeRotationGizmoRef, the       *)
(* scaling the scale gizmo has left on the attached mesh (in 1/80), the    *)
(* ref currentGizmoMode, and for each gizmo the closure of the             *)
(* syncMeshWithBuilding its drag-end observer calls: the selectedBuildingId *)
(* and the building of the render that registered it.                      *)
(***************************************************************************)
ManagedGizmos == {"position", "plane", "scale"}

NoSync == [set |-> FALSE, id |-> Null, found |-> FALSE, width |-> 0, length |-> 0]

NoPlane == [exists |-> FALSE, attachedMesh |-> Null, stale |-> FALSE]

NoScaling == [x |-> Unit, z |-> Unit]

NoGizmoManager ==
  [positionGizmoEnabled |-> FALSE, rotationGizmoEnabled |-> FALSE,
   scaleGizmoEnabled |-> FALSE, attachedMesh |-> Null, plane |-> NoPlane,
   scaling |-> NoScaling, currentGizmoMode |-> NoMode,
   sync |-> [g \in ManagedGizmos |-> NoSync], drags |-> 0]

\* syncMeshWithBuilding as the render r defines it
SyncClosure(w, r) ==
  LET a == FindIn(w.s.heap, r.buildings, r.selectedBuildingId) IN
  [set |-> TRUE, id |-> r.selectedBuildingId, found |-> a # Null,
   width |-> IF a # Null THEN w.s.heap[a].width ELSE 0,
   length |-> IF a # Null THEN w.s.heap[a].length ELSE 0]

\* syncMeshWithBuilding, called by the drag-end observer of gizmo g
SyncMeshWithBuilding(w, g) ==
  LET c == w.v.gm.sync[g] IN
  IF ~c.set \/ c.id = Null \/ c.id \notin DOMAIN w.v.meshes \/ ~c.found THEN w
  ELSE LET mesh == w.v.meshes[c.id]
           scaling == IF w.v.gm.attachedMesh = c.id THEN w.v.gm.scaling
                      ELSE NoScaling
       IN [w EXCEPT !.s = UpdateBuilding(w.s, c.id,
             [px |-> mesh.px, pz |-> mesh.pz, rotation |-> mesh.rot,
              width |-> (c.width * scaling.x) \div Unit,
              length |-> (c.length * scaling.z) \div Unit]),
                    !.n = w.n + 1]

AllGizmosDisabled(w) ==
  [w EXCEPT !.v.gm.positionGizmoEnabled = FALSE,
            !.v.gm.rotationGizmoEnabled = FALSE,
            !.v.gm.scaleGizmoEnabled = FALSE]

\* enableTranslateGizmo of the render r
EnableTranslateGizmo(w, r) ==
  [AllGizmosDisabled(w) EXCEPT !.v.gm.positionGizmoEnabled = TRUE,
                               !.v.gm.sync["position"] = SyncClosure(w, r),
                               !.v.gm.currentGizmoMode = "translate"]

\* enableRotateGizmo of the render r
EnableRotateGizmo(w, r) ==
  LET w1 == [AllGizmosDisabled(w) EXCEPT !.v.gm.plane = NoPlane,
                                         !.v.gm.sync["plane"] = NoSync]
  IN IF r.selectedBuildingId = Null \/ r.selectedBuildingId \notin DOMAIN w.v.meshes
     THEN w1
     ELSE [w1 EXCEPT !.v.gm.plane = [exists |-> TRUE,
                                     attachedMesh |-> r.selectedBuildingId,
                                     stale |-> FALSE],
                     !.v.gm.sync["plane"] = SyncClosure(w, r),
                     !.v.gm.currentGizmoMode = "rotate"]

\* enableScaleGizmo of the render r
EnableScaleGizmo(w, r) ==
  [AllGizmosDisabled(w) EXCEPT !.v.gm.scaleGizmoEnabled = TRUE,
                               !.v.gm.sync["scale"] = SyncClosure(w, r),
                               !.v.gm.currentGizmoMode = "scale"]

\* useEffect(..., [buildings, selectedBuildingId]) of the gizmo-manager
\* version: every mesh is disposed and created again, and the manager is
\* attached to the mesh of the selected building in the current mode
ManagerBuildingsEffect(w, r) ==
  LET ids == {w.s.heap[r.buildings[i]].id : i \in DOMAIN r.buildings}
      at(id) == w.s.heap[FindIn(w.s.heap, r.buildings, id)]
      sel == IF r.selectedBuildingId \in ids THEN r.selectedBuildingId ELSE Null
      w1 == [w EXCEPT !.v.meshes = [id \in ids |-> NewMesh(at(id), FALSE)],
                      !.v.gm.attachedMesh = sel,
                      !.v.gm.scaling = NoScaling,
                      !.v.gm.plane.stale = w.v.gm.plane.exists]
      mode == w.v.gm.currentGizmoMode
  IN IF sel = Null THEN w1
     ELSE IF mode = "translate" THEN EnableTranslateGizmo(w1, r)
     ELSE IF mode = "rotate" THEN EnableRotateGizmo(w1, r)
     ELSE IF mode = "scale" THEN EnableScaleGizmo(w1, r)
     ELSE w1

\* a render of the gizmo-manager version followed by its effects
ManagerCommit(w) ==
  LET deps == w.s.dirty
      r == [buildings |-> w.s.buildings,
            selectedBuildingId |-> w.s.selectedBuildingId,
            placementMode |-> w.s.placementMode,
            currentRoofType |-> w.s.currentRoofType,
            currentEditorMode |-> NoMode]
      w1 == IF deps \cap {"buildings", "selectedBuildingId"} # {}
            THEN ManagerBuildingsEffect(w, r) ELSE w
      w2 == IF deps \cap {"placementMode", "currentRoofType"} # {}
            THEN GhostEffect(w1, r) ELSE w1
  IN [w2 EXCEPT !.v.rendered = r, !.s.dirty = {}]

\* a render of the provider and the viewport followed by the effects whose
\* dependencies changed, in the order the component declares them
Commit(w) ==
  LET deps == w.s.dirty
      r == [buildings |-> w.s.buildings,
            selectedBuildingId |-> w.s.selectedBuildingId,
            placementMode |-> w.s.placementMode,
            currentRoofType |-> w.s.currentRoofType,
            currentEditorMode |-> w.v.currentEditorMode]
      w1 == IF "placementMode" \in deps
            THEN [w EXCEPT !.v.placementModeRef = r.placementMode] ELSE w
      w2 == IF "currentRoofType" \in deps
            THEN [w1 EXCEPT !.v.currentRoofTypeRef = r.currentRoofType] ELSE w1
      w3 == IF deps \cap {"buildings", "selectedBuildingId", "currentEditorMode"} # {}
            THEN BuildingsEffect(w2, r) ELSE w2
      w4 == IF deps \cap {"placementMode", "currentRoofType"} # {}
            THEN GhostEffect(w3, r) ELSE w3
      w5 == ElevationEffects(w4, r, deps)
  IN [w5 EXCEPT !.v.rendered = r, !.s.dirty = {}]

\* enableMoveGizmo, with the closure of the last render
EnableMoveGizmo(w) ==
  LET r == w.v.rendered IN
  IF r.selectedBuildingId = Null THEN w
  ELSE LET w1 == EditorDetach(w)
           a == FindIn(w1.s.heap, r.buildings, r.selectedBuildingId)
           w2 == IF a # Null /\ r.selectedBuildingId \in DOMAIN w1.v.meshes
                 THEN GizmoAttach(w1, a, r.selectedBuildingId) ELSE w1
       IN SetCurrentEditorMode(w2, "move")

\* enableBuildingEditor without its moveGizmoRef.current.detach() (C5 depends
\* on that call)
EnableEditorOverGizmo(w) ==
  LET r == w.v.rendered IN
  IF r.selectedBuildingId = Null THEN w
  ELSE LET a == FindIn(w.s.heap, r.buildings, r.selectedBuildingId)
           w2 == IF a # Null /\ r.selectedBuildingId \in DOMAIN w.v.meshes
                 THEN EditorAttach(w, a, r.selectedBuildingId) ELSE w
       IN SetCurrentEditorMode(w2, "edit")

\* enableBuildingEditor, with the closure of the last render
EnableBuildingEditor(w) ==
  LET r == w.v.rendered IN
  IF r.selectedBuildingId = Null THEN w
  ELSE LET w1 == GizmoDetach(w)
           a == FindIn(w1.s.heap, r.buildings, r.selectedBuildingId)
           w2 == IF a # Null /\ r.selectedBuildingId \in DOMAIN w1.v.meshes
                 THEN EditorAttach(w1, a, r.selectedBuildingId) ELSE w1
       IN SetCurrentEditorMode(w2, "edit")

(***************************************************************************)
(* Placement.  A pick is what scene.pick returned: hit, whether the mesh   *)
(* hit is the ground, and the picked point.  Each of the three handlers    *)
(* builds the new record with a literal of its own.                        *)
(***************************************************************************)
DebounceMs == 300
TickMs == DebounceMs \div 3    \* the clock of the model advances in thirds

\* the building literal of handlePointerDown
PointerDownBuilding(id, type, p) ==
  [id |-> id, type |-> type, px |-> p.x, pz |-> p.z, rotation |-> 0,
   width |-> 3 * Unit, length |-> 5 * Unit, height |-> 5 * Unit,
   ridgeHeight |-> IF type = "dualPitch" THEN Unit ELSE Undefined,
   ridgeOffset |-> IF type = "dualPitch" THEN 0 ELSE Undefined]

\* the building literal of the ghost effect, whose height is 2 (C10 depends
\* on the three handlers' literals agreeing)
GhostLiteral(id, type, p) ==
  [id |-> id, type |-> type, px |-> p.x, pz |-> p.z, rotation |-> 0,
   width |-> 3 * Unit, length |-> 5 * Unit, height |-> 2 * Unit,
   ridgeHeight |-> IF type = "dualPitch" THEN Unit ELSE Undefined,
   ridgeOffset |-> IF type = "dualPitch" THEN 0 ELSE Undefined]

\* the building literal of canvasClickHandler
CanvasClickBuilding(id, type, p) ==
  [id |-> id, type |-> type, px |-> p.x, pz |-> p.z, rotation |-> 0,
   width |-> 3 * Unit, length |-> 5 * Unit, height |-> 5 * Unit,
   ridgeHeight |-> IF type = "dualPitch" THEN Unit ELSE Undefined,
   ridgeOffset |-> IF type = "dualPitch" THEN 0 ELSE Undefined]

\* the building literal of the ground's OnPickTrigger action
GroundActionBuilding(id, type, p) ==
  [id |-> id, type |-> type, px |-> p.x, pz |-> p.z, rotation |-> 0,
   width |-> 3 * Unit, length |-> 5 * Unit, height |-> 5 * Unit,
   ridgeHeight |-> IF type = "dualPitch" THEN Unit ELSE Undefined,
   ridgeOffset |-> IF type = "dualPitch" THEN 0 ELSE Undefined]

GroundAt(p) ==
  [hit |-> TRUE, ground |-> TRUE, point |-> TRUE, p |-> p, mesh |-> Null]

\* no debounce at all (C28 depends on the debounce stopping the second
\* handler of a click that runs before the refs are copied)
NeverDebounced(v) == FALSE

\* now - lastClickTimeRef.current < 300
Debounced(v) == v.sinceLastClick < DebounceMs

\* lastClickTimeRef.current = now; addBuilding(b); setPlacementMode(false),
\* with uuidv4() drawing the next unused id
Place(w, b) ==
  [w EXCEPT !.v.sinceLastClick = 0,
            !.s = SetPlacementMode(
                    AddBuilding([w.s EXCEPT !.nextId = w.s.nextId + 1], b),
                    FALSE)]

HandlePointerDown(w, pick) ==
  IF /\ w.v.placementModeRef /\ w.v.currentRoofTypeRef # NoType
     /\ pick.hit /\ pick.ground /\ pick.point
  THEN IF Debounced(w.v) THEN w
       ELSE Place(w, PointerDownBuilding(w.s.nextId, w.v.currentRoofTypeRef,
                                         pick.p))
  ELSE w

\* the POINTERDOWN branch of the scene's pointer observer: `pick` is the
\* plain pick, groundBehind whether a ground-only pick hits the ground
PointerDownObserver(w, pick, groundBehind) ==
  IF w.v.placementModeRef /\ pick.hit /\ ~pick.ground /\ groundBehind
  THEN HandlePointerDown(w, [pick EXCEPT !.ground = TRUE, !.point = TRUE])
  ELSE HandlePointerDown(w, pick)

CanvasClickHandler(w, pick) ==
  IF ~w.v.placementModeRef \/ w.v.currentRoofTypeRef = NoType THEN w
  ELSE IF pick.hit /\ pick.ground /\ pick.point
       THEN IF Debounced(w.v) THEN w
            ELSE Place(w, CanvasClickBuilding(w.s.nextId,
                                              w.v.currentRoofTypeRef, pick.p))
       ELSE w

\* `pick` is event.sourceEvent, which the handler reads as a pick
GroundAction(w, pick) ==
  IF ~w.v.placementModeRef \/ w.v.currentRoofTypeRef = NoType THEN w
  ELSE IF pick.point
       THEN IF Debounced(w.v) THEN w
            ELSE Place(w, GroundActionBuilding(w.s.nextId,
                                               w.v.currentRoofTypeRef, pick.p))
       ELSE w

\* a pointer-move handled as a pointer-down is (C11 depends on the move
\* handler writing the ghost only)
PlaceOnMove(w, pick) == HandlePointerDown(w, pick)

\* handlePointerMove
HandlePointerMove(w, pick) ==
  IF w.v.placementModeRef /\ w.v.ghost.exists
  THEN IF pick.hit /\ pick.ground /\ pick.point
       THEN [w EXCEPT !.v.ghost.enabled = TRUE,
                      !.v.ghost.px = pick.p.x, !.v.ghost.pz = pick.p.z]
       ELSE [w EXCEPT !.v.ghost.enabled = FALSE]
  ELSE w

\* the POINTERMOVE branch of the scene's pointer observer
PointerMoveObserver(w, pick, groundBehind) ==
  IF w.v.placementModeRef /\ pick.hit /\ ~pick.ground /\ groundBehind
  THEN HandlePointerMove(w, [pick EXCEPT !.ground = TRUE, !.point = TRUE])
  ELSE HandlePointerMove(w, pick)

\* the ground points the pointer is tried at outside a drag: the diagonals
\* of the grid
PickPoints == {p \in Points : p.x = p.z \/ p.x = 0 - p.z}

\* what scene.pick can return: the ground at p, another mesh (the mesh of
\* the building `mesh`, or with Null a mesh of no building), or nothing
Picks ==
  {[hit |-> TRUE, ground |-> TRUE, point |-> TRUE, p |-> p, mesh |-> Null] :
     p \in PickPoints}
  \cup {[hit |-> TRUE, ground |-> FALSE, point |-> TRUE, p |-> p, mesh |-> m] :
          p \in PickPoints, m \in BuildingIds \cup {Null}}
  \cup {[hit |-> FALSE, ground |-> FALSE, point |-> FALSE,
         p |-> [x |-> 0, z |-> 0], mesh |-> Null]}

\* scene.pick returns the mesh of a building only if the mesh exists and
\* is pickable
CanPick(v, pick) ==
  pick.mesh # Null =>
    /\ pick.mesh \in DOMAIN v.meshes
    /\ v.meshes[pick.mesh].pickable

(***************************************************************************)
(* The state machine.                                                      *)
(***************************************************************************)
VARIABLES
  store,     \* the provider's state and the object heap
  view,      \* MainViewport
  editor,    \* the BuildingEditor instance
  gizmo,     \* the BuildingMoveGizmo instance
  elevation, \* ElevationViewport; history: clientY of the last mouse event
             \* it handled and the number of its drags so far
  pointer,   \* the drag PointerDragBehavior has in progress; history: the
             \* drags so far, whether a handler has processed a move of this
             \* drag, and the drag angle the rotation drag before this one
             \* had captured
  ev         \* history: the handler that ran last, the handle it ran for
             \* and, for the handlers a claim needs it for, the pointer
             \* position or movement it was given

vars == <<store, view, editor, gizmo, elevation, pointer, ev>>

World == [s |-> store, v |-> view, e |-> editor, g |-> gizmo,
          el |-> elevation, n |-> 0, overlap |-> FALSE, m |-> Null]

Origin == [x |-> 0, z |-> 0]

\* the objects something still refers to
Live(w) ==
  (Range(w.s.buildings) \cup Range(w.v.rendered.buildings)
     \cup {w.e.building, w.g.building}) \ {Null}

\* the handler `op` ends in world w
Finish(w, op, h, p) ==
  /\ store' = [w.s EXCEPT !.heap = [a \in Live(w) |-> w.s.heap[a]]]
  /\ view' = w.v
  /\ editor' = w.e
  /\ gizmo' = w.g
  /\ elevation' = w.el
  /\ ev' = [op |-> op, h |-> h, p |-> p, n |-> w.n, overlap |-> w.overlap,
            m |-> w.m]

NewStore ==
  [heap |-> EmptyMap, buildings |-> << >>, selectedBuildingId |-> Null,
   placementMode |-> FALSE, currentRoofType |-> NoType, dirty |-> {},
   nextId |-> 1]

\* the physical click being delivered: the handlers that have still to see
\* it, its point, the number of buildings before it, and whether the last
\* accepted placement click was at least 300 ms old when it began
ClickHandlers == {"pointerDown", "groundAction", "canvasClick"}

NoClick ==
  [started |-> FALSE, pending |-> {}, p |-> Origin, before |-> 0,
   fresh |-> FALSE]

NewView ==
  [currentEditorMode |-> NoMode, meshes |-> EmptyMap, click |-> NoClick,
   placementModeRef |-> FALSE, currentRoofTypeRef |-> NoType,
   sinceLastClick |-> DebounceMs, ghost |-> NoGhost, ghosts |-> 0,
   gm |-> NoGizmoManager,
   rendered |-> [buildings |-> << >>, selectedBuildingId |-> Null,
                 placementMode |-> FALSE, currentRoofType |-> NoType,
                 currentEditorMode |-> NoMode]]

NoAngle == [has |-> FALSE, angle |-> 0]
NoPose == [px |-> 0, pz |-> 0, rotation |-> 0]
NoDrag == [ctl |-> "none", h |-> "none", drags |-> 0, stepped |-> FALSE,
           prev |-> NoAngle, at |-> NoPose, moved |-> FALSE]

\* the application after its first render and mount effects
Init ==
  /\ store = NewStore
  /\ view = NewView
  /\ editor = NewEditor
  /\ gizmo = NewGizmo
  /\ \E version \in ElevationVersions : elevation = NewElevation(version)
  /\ pointer = NoDrag
  /\ ev = [op |-> "init", h |-> "none", p |-> Origin, n |-> 0, overlap |-> FALSE, m |-> Null]

(***************************************************************************)
(* Toolbar (components/main-toolbar.tsx).  A click is a discrete event:    *)
(* React renders and runs the effects before the next event is handled.    *)
(***************************************************************************)
ToolbarAddRoof ==
  \E type \in RoofTypes :
    /\ pointer' = pointer
    /\ Finish(Commit([World EXCEPT
                !.s = SetCurrentRoofType(SetPlacementMode(store, TRUE), type)]),
              "addRoof", type, Origin)

ToolbarSelect ==
  \E id \in {store.heap[a].id : a \in Range(view.rendered.buildings)} \cup {Null} :
    /\ pointer' = pointer
    /\ Finish(Commit([World EXCEPT !.s = SelectBuilding(store, id)]),
              "select", "none", Origin)

ToolbarDelete ==
  /\ view.rendered.selectedBuildingId # Null
  /\ pointer' = pointer
  /\ Finish(Commit([World EXCEPT !.s =
              DeleteBuilding(store, view.rendered.selectedBuildingId,
                             view.rendered.selectedBuildingId)]),
            "delete", "none", Origin)

ToolbarMove ==
  /\ view.rendered.selectedBuildingId # Null
  /\ pointer' = pointer
  /\ Finish(Commit(EnableMoveGizmo(World)), "enableMoveGizmo", "none", Origin)

ToolbarEdit ==
  /\ view.rendered.selectedBuildingId # Null
  /\ pointer' = pointer
  /\ Finish(Commit(EnableBuildingEditor(World)), "enableBuildingEditor",
            "none", Origin)

\* a render React had left pending after a pointer-move handler
CommitPending ==
  /\ store.dirty # {}
  /\ pointer' = pointer
  /\ Finish(Commit(World), "commit", "none", Origin)

(***************************************************************************)
(* Pointer events on the canvas, outside a drag.  Pointer-down and click   *)
(* are discrete events; a pointer-move leaves its render pending.          *)
(***************************************************************************)
PointerDown ==
  \E pick \in Picks : \E groundBehind \in BOOLEAN :
    /\ pointer.ctl = "none"
    /\ store.nextId <= MaxBuildings
    /\ CanPick(view, pick)
    /\ pointer' = pointer
    /\ Finish(Commit(PointerDownObserver([World EXCEPT !.m = pick.mesh], pick,
                                         groundBehind)),
              "pointerDown",
              IF pick.ground \/ (pick.hit /\ groundBehind) THEN "ground" ELSE "none",
              pick.p)

CanvasClick ==
  \E pick \in Picks :
    /\ pointer.ctl = "none"
    /\ store.nextId <= MaxBuildings
    /\ CanPick(view, pick)
    /\ pointer' = pointer
    /\ Finish(Commit(CanvasClickHandler(World, pick)), "canvasClick",
              IF pick.ground THEN "ground" ELSE "none", pick.p)

\* OnPickTrigger fires when the ground is the mesh picked
GroundPick ==
  \E p \in PickPoints : \E hasPoint \in BOOLEAN :
    /\ pointer.ctl = "none"
    /\ store.nextId <= MaxBuildings
    /\ pointer' = pointer
    /\ Finish(Commit(GroundAction(World,
                [hit |-> TRUE, ground |-> TRUE, point |-> hasPoint, p |-> p,
                 mesh |-> Null])),
              "groundAction", IF hasPoint THEN "ground" ELSE "none", p)

PointerMove ==
  \E pick \in Picks : \E groundBehind \in BOOLEAN :
    /\ pointer.ctl = "none"
    /\ CanPick(view, pick)
    /\ pointer' = pointer
    /\ Finish(PointerMoveObserver(World, pick, groundBehind), "pointerMove",
              IF pick.ground \/ (pick.hit /\ groundBehind) THEN "ground" ELSE "none",
              pick.p)

\* time passes
Tick ==
  /\ view.sinceLastClick < DebounceMs
  /\ view' = [view EXCEPT !.sinceLastClick = Min(DebounceMs, @ + TickMs)]
  /\ ev' = [op |-> "tick", h |-> "none", p |-> Origin, n |-> 0, overlap |-> FALSE, m |-> Null]
  /\ UNCHANGED <<store, editor, gizmo, elevation, pointer>>

(***************************************************************************)
(* Input of the elevation view.  A change of the range input is a discrete *)
(* event; a mouse-move leaves its render pending, and a mouse-down or      *)
(* mouse-up sets no state.  The mouse is at one of a few heights, one step *)
(* apart; a step is worth a ridge height of 1 in either drag.              *)
(***************************************************************************)
MaxMouse == 2

YStep(version) ==
  IF version = "handles"
  THEN ((MAX_VISUAL_HEIGHT - MIN_VISUAL_HEIGHT) * SubPixel * Unit)
         \div (MAX_RIDGE_HEIGHT - MIN_RIDGE_HEIGHT)
  ELSE 20 * SubPixel

MouseYs(version) == {k * YStep(version) : k \in (0 - MaxMouse)..MaxMouse}

\* the positions of the range input the model moves it to
SliderStops ==
  {v \in SliderMin..SliderMax :
     /\ (v - SliderMin) % SliderStep = 0
     /\ v \in {SliderMin, Unit, SliderMax}}

\* the building selected in the last render, or Null
RenderedSelection == FindIn(store.heap, view.rendered.buildings,
                            view.rendered.selectedBuildingId)

SliderChange ==
  \E value \in SliderStops :
    /\ elevation.version \in {"slider", "babylon"}
    /\ RenderedSelection # Null
    /\ store.heap[RenderedSelection].type = "dualPitch"
    /\ pointer' = pointer
    /\ Finish(Commit(HandleSliderChange(World, value)), "sliderChange", "none",
              Origin)

RoofDragStart ==
  \E y \in MouseYs(elevation.version) :
    /\ elevation.version = "babylon"
    /\ elevation.roof
    /\ ~elevation.drag.listening
    /\ pointer.ctl = "none"
    /\ elevation.drags < MaxDrags
    /\ pointer' = pointer
    /\ Finish([RoofPointerDown(World, y) EXCEPT !.el.drags = @ + 1],
              "roofPointerDown", "none", Origin)

RoofDragMove ==
  \E y \in MouseYs(elevation.version) :
    /\ elevation.version = "babylon"
    /\ elevation.drag.listening
    /\ pointer' = pointer
    /\ Finish(RoofMoveHandler(World, y), "roofMove", "none", Origin)

RoofDragStop ==
  /\ elevation.version = "babylon"
  /\ elevation.drag.listening
  /\ pointer' = pointer
  /\ Finish(RoofUpHandler(World), "roofUp", "none", Origin)

RidgeHandleDown ==
  \E y \in MouseYs(elevation.version) :
    /\ elevation.version = "handles"
    /\ RenderedSelection # Null
    /\ store.heap[RenderedSelection].type # "flat"
    /\ ~elevation.drag.listening
    /\ pointer.ctl = "none"
    /\ elevation.drags < MaxDrags
    /\ pointer' = pointer
    /\ Finish([HandleHandleMouseDown(World, y) EXCEPT !.el.drags = @ + 1],
              "handleMouseDown", "none", Origin)

RidgeHandleMove ==
  \E y \in MouseYs(elevation.version) :
    /\ elevation.version = "handles"
    /\ elevation.drag.listening
    /\ pointer' = pointer
    /\ Finish(HandleMouseMove(World, y), "handleMouseMove", "none", Origin)

RidgeHandleUp ==
  /\ elevation.version = "handles"
  /\ elevation.drag.listening
  /\ pointer' = pointer
  /\ Finish(HandleMouseUp(World), "handleMouseUp", "none", Origin)

(***************************************************************************)
(* Drags of the controls' handles.  PointerDragBehavior starts a drag on a *)
(* pointer-down over an enabled handle, reports every pointer-move of the  *)
(* drag, and ends it on pointer-up.                                        *)
(***************************************************************************)
Deltas == {d \in Points : Abs(d.x) <= CoordStep /\ Abs(d.z) <= CoordStep}

InReach(x) == Abs(x) <= MaxPos * CoordStep

\* position and rotation of a building record
PoseOf(b) == [px |-> b.px, pz |-> b.pz, rotation |-> b.rotation]

\* pointer-down on a corner or an edge handle
ResizeDragStart ==
  \E h \in ResizeHandles :
    /\ pointer.ctl = "none"
    /\ pointer.drags < MaxDrags
    /\ editor.rootEnabled
    /\ pointer' = [pointer EXCEPT !.ctl = "editor", !.h = h, !.drags = @ + 1,
                                  !.stepped = FALSE,
                                  !.at = IF Attached(editor)
                                         THEN PoseOf(store.heap[editor.building])
                                         ELSE NoPose]
    /\ Finish(EditorResizeDragStart(World, h), "editorDragStart", h, Origin)

\* pointer-down on the rotation handle
RotationDragStart ==
  /\ pointer.ctl = "none"
  /\ pointer.drags < MaxDrags
  /\ editor.rotEnabled
  /\ pointer' = [pointer EXCEPT
                  !.ctl = "editor", !.h = "rotation", !.drags = @ + 1,
                  !.stepped = FALSE,
                  !.prev = [has |-> editor.rotMeta.hasInitialDragAngle,
                            angle |-> editor.rotMeta.initialDragAngle]]
  /\ Finish(EditorRotationDragStart(World), "editorDragStart", "rotation", Origin)

\* pointer-down on the editor's central drag handle
HandleDragStart ==
  /\ pointer.ctl = "none"
  /\ pointer.drags < MaxDrags
  /\ editor.rootEnabled
  /\ pointer' = [pointer EXCEPT !.ctl = "editor", !.h = "drag", !.drags = @ + 1,
                                !.stepped = FALSE]
  /\ Finish(EditorMoveDragStart(World), "editorDragStart", "drag", Origin)

EditorResizeMove ==
  \E p \in Points : \E moved \in BOOLEAN :
    /\ pointer.ctl = "editor"
    /\ pointer.h \in ResizeHandles
    /\ pointer' = [pointer EXCEPT !.stepped = @ \/ Attached(editor)]
    /\ Finish(EditorResizeDrag(World, pointer.h, p,
                IF moved THEN p ELSE HandleAbsolutePosition(editor, pointer.h)),
              "editorResize", pointer.h, Origin)

\* the pointer positions tried in edge drags: on the axes, at 0.3, 1 and 2.5
\* from the centre
EdgeReach == {(3 * Unit) \div 10, Unit, (5 * Unit) \div 2}

EdgePoints ==
  {[x |-> sg * c, z |-> 0] : sg \in {0 - 1, 1}, c \in EdgeReach}
  \cup {[x |-> 0, z |-> sg * c] : sg \in {0 - 1, 1}, c \in EdgeReach}

\* onDrag of an edge handle, the pointer on one of the axes
EdgeResizeMove ==
  \E p \in EdgePoints : \E moved \in BOOLEAN :
    /\ pointer.ctl = "editor"
    /\ pointer.h \in Edges
    /\ pointer' = [pointer EXCEPT !.stepped = @ \/ Attached(editor)]
    /\ Finish(EditorResizeDrag(World, pointer.h, p,
                IF moved THEN p ELSE HandleAbsolutePosition(editor, pointer.h)),
              "edgeResize", pointer.h, p)

\* onDrag of a corner or an edge handle, the pointer given in the local frame
\* the building had at drag-start
LocalResizeMove ==
  \E l \in Points : \E moved \in BOOLEAN :
    LET p == IF Attached(editor) /\ editor.meta[pointer.h].set
             THEN LocalToWorld(l, editor.meta[pointer.h].m) ELSE l IN
    /\ pointer.ctl = "editor"
    /\ pointer.h \in ResizeHandles
    /\ pointer' = [pointer EXCEPT !.stepped = @ \/ Attached(editor),
                                  !.moved = moved]
    /\ Finish(EditorResizeDrag(World, pointer.h, p,
                IF moved THEN p ELSE HandleAbsolutePosition(editor, pointer.h)),
              "localResize", pointer.h, l)

EditorRotationMove ==
  \E p \in Points :
    /\ pointer.ctl = "editor"
    /\ pointer.h = "rotation"
    /\ AxisAligned([x |-> p.x - editor.rotMeta.cx, z |-> p.z - editor.rotMeta.cz])
    /\ pointer' = [pointer EXCEPT !.stepped = @ \/ Attached(editor)]
    /\ Finish(EditorRotationDrag(World, p), "editorRotation", "rotation", p)

EditorMoveMove ==
  \E d \in Deltas :
    /\ pointer.ctl = "editor"
    /\ pointer.h = "drag"
    /\ Attached(editor) =>
         /\ InReach(view.meshes[editor.targetMesh].px + d.x)
         /\ InReach(view.meshes[editor.targetMesh].pz + d.z)
    /\ pointer' = [pointer EXCEPT !.stepped = @ \/ Attached(editor)]
    /\ Finish(EditorMoveDrag(World, d), "editorMove", "drag", d)

EditorDragStop ==
  /\ pointer.ctl = "editor"
  /\ pointer' = [pointer EXCEPT !.ctl = "none", !.h = "none"]
  /\ Finish(Commit(EditorDragEnd(World, pointer.h)), "editorDragEnd",
            pointer.h, Origin)

GizmoDragBegin ==
  \E h \in GizmoHandles :
    /\ pointer.ctl = "none"
    /\ pointer.drags < MaxDrags
    /\ gizmo.rootEnabled
    /\ pointer' = [pointer EXCEPT !.ctl = "gizmo", !.h = h, !.drags = @ + 1,
                                  !.stepped = FALSE]
    /\ Finish(GizmoDragStart(World, h), "gizmoDragStart", h, Origin)

GizmoDragMove ==
  \E d \in Deltas :
    /\ pointer.ctl = "gizmo"
    /\ Attached(gizmo) =>
         /\ InReach(view.meshes[gizmo.targetMesh].px + d.x)
         /\ InReach(view.meshes[gizmo.targetMesh].pz + d.z)
    /\ pointer' = [pointer EXCEPT !.stepped = @ \/ Attached(gizmo)]
    /\ Finish(GizmoDrag(World, pointer.h, d), "gizmoDrag", pointer.h, d)

GizmoDragStop ==
  /\ pointer.ctl = "gizmo"
  /\ pointer' = [pointer EXCEPT !.ctl = "none", !.h = "none"]
  /\ Finish(Commit(GizmoDragEnd(World)), "gizmoDragEnd", pointer.h, Origin)

Next ==
  \/ ToolbarAddRoof \/ ToolbarSelect \/ ToolbarDelete
  \/ ToolbarMove \/ ToolbarEdit \/ CommitPending
  \/ PointerDown \/ CanvasClick \/ GroundPick \/ PointerMove \/ Tick
  \/ ResizeDragStart \/ RotationDragStart \/ HandleDragStart
  \/ EditorResizeMove \/ EditorRotationMove \/ EditorMoveMove \/ EditorDragStop
  \/ GizmoDragBegin \/ GizmoDragMove \/ GizmoDragStop
  \/ SliderChange \/ RoofDragStart \/ RoofDragMove \/ RoofDragStop
  \/ RidgeHandleDown \/ RidgeHandleMove \/ RidgeHandleUp

Spec == Init /\ [][Next]_vars

(***************************************************************************)
(* The controls on their own: the application has one building, a dual     *)
(* pitch roof placed at the origin and selected, and the Edit button has   *)
(* been pressed.                                                           *)
(***************************************************************************)
NewWorld ==
  [s |-> NewStore, v |-> NewView, e |-> NewEditor, g |-> NewGizmo,
   el |-> NewElevation("babylon"), n |-> 0, overlap |-> FALSE, m |-> Null]

\* the world after a roof button and a click on the ground at p
Placed(w, type, p) ==
  Commit(PointerDownObserver(
    Commit([w EXCEPT !.s = SetCurrentRoofType(SetPlacementMode(w.s, TRUE), type)]),
    GroundAt(p), FALSE))

Editing(type) == Commit(EnableBuildingEditor(Placed(NewWorld, type, Origin)))

InitControls ==
    LET w == Editing("dualPitch") IN
    /\ store = [w.s EXCEPT !.heap = [a \in Live(w) |-> w.s.heap[a]]]
    /\ view = w.v
    /\ editor = w.e
    /\ gizmo = w.g
    /\ elevation = w.el
  /\ elevation = w.el
    /\ pointer = NoDrag
    /\ ev = [op |-> "init", h |-> "none", p |-> Origin, n |-> 0, overlap |-> FALSE, m |-> Null]

NextControls ==
  \/ ToolbarMove \/ ToolbarEdit \/ CommitPending
  \/ ResizeDragStart \/ RotationDragStart \/ HandleDragStart
  \/ EditorResizeMove \/ EditorRotationMove \/ EditorMoveMove \/ EditorDragStop
  \/ GizmoDragBegin \/ GizmoDragMove \/ GizmoDragStop

SpecControls == InitControls /\ [][NextControls]_vars

(***************************************************************************)
(* Resizing on its own: drags of the corner and edge handles.              *)
(***************************************************************************)
NextResize ==
  \/ ResizeDragStart \/ EditorResizeMove \/ EditorDragStop
  \/ CommitPending

SpecResize == InitControls /\ [][NextResize]_vars

\* edge drags with the pointer on the axes
NextEdge ==
  \/ ResizeDragStart \/ EdgeResizeMove \/ EditorDragStop \/ CommitPending

SpecEdge == InitControls /\ [][NextEdge]_vars

(***************************************************************************)
(* Resizing a building that stands anywhere: the session starts with the   *)
(* building placed at one of the pick points and one rotation drag made    *)
(* and released, from the rotation handle's side to any point on the axes  *)
(* through the centre, so that the building may stand rotated by any       *)
(* number of quarter turns.                                                *)
(***************************************************************************)
AxisPoints == {p \in Points : AxisAligned(p)}

\* the points on the two axes through c
AxisPointsAbout(c) == {[x |-> c.x + a.x, z |-> c.z + a.z] : a \in AxisPoints}

\* a rotation drag from its pointer-down to its pointer-up, with two moves
RotatedOnce(w, p1, p2) ==
  Commit(EditorDragEnd(
    EditorRotationDrag(EditorRotationDrag(EditorRotationDragStart(w), p1), p2),
    "rotation"))

EditingAt(type, c) == Commit(EnableBuildingEditor(Placed(NewWorld, type, c)))

InitPosed ==
  \E c \in PickPoints : \E a2 \in AxisPointsAbout(c) :
    LET a1 == [x |-> c.x, z |-> c.z - CoordStep]
        w == RotatedOnce(EditingAt("dualPitch", c), a1, a2) IN
    /\ store = [w.s EXCEPT !.heap = [a \in Live(w) |-> w.s.heap[a]]]
    /\ view = w.v
    /\ editor = w.e
    /\ gizmo = w.g
    /\ elevation = w.el
    /\ pointer = NoDrag
    /\ ev = [op |-> "init", h |-> "none", p |-> Origin, n |-> 0, overlap |-> FALSE, m |-> Null]

NextPosed ==
  \/ ResizeDragStart \/ LocalResizeMove \/ EditorDragStop \/ CommitPending

SpecPosed == InitPosed /\ [][NextPosed]_vars

(***************************************************************************)
(* Rotating on its own.  The session starts after one rotation drag has    *)
(* been made and released: the building may stand rotated, and the handle  *)
(* carries what that drag left on it.                                      *)
(***************************************************************************)

InitRotate ==
  \E p1, p2 \in AxisPoints :
    LET w == RotatedOnce(Editing("dualPitch"), p1, p2) IN
    /\ store = [w.s EXCEPT !.heap = [a \in Live(w) |-> w.s.heap[a]]]
    /\ view = w.v
    /\ editor = w.e
    /\ gizmo = w.g
    /\ elevation = w.el
  /\ elevation = w.el
    /\ pointer = NoDrag
    /\ ev = [op |-> "init", h |-> "none", p |-> Origin, n |-> 0, overlap |-> FALSE, m |-> Null]

NextRotate ==
  \/ RotationDragStart \/ EditorRotationMove \/ EditorDragStop
  \/ ToolbarMove \/ ToolbarEdit

SpecRotate == InitRotate /\ [][NextRotate]_vars

(***************************************************************************)
(* Moving on its own: the same building, with the Move button pressed.     *)
(***************************************************************************)
Moving(type) == Commit(EnableMoveGizmo(Placed(NewWorld, type, Origin)))

InitMove ==
  LET w == Moving("dualPitch") IN
  /\ store = [w.s EXCEPT !.heap = [a \in Live(w) |-> w.s.heap[a]]]
  /\ view = w.v
  /\ editor = w.e
  /\ gizmo = w.g
  /\ elevation = w.el
  /\ pointer = NoDrag
  /\ ev = [op |-> "init", h |-> "none", p |-> Origin, n |-> 0, overlap |-> FALSE, m |-> Null]

NextMove ==
  \/ GizmoDragBegin \/ GizmoDragMove \/ GizmoDragStop
  \/ ToolbarMove \/ ToolbarEdit

SpecMove == InitMove /\ [][NextMove]_vars

(***************************************************************************)
(* Switching between the controls: two buildings, the second one selected, *)
(* the Move and Edit buttons, selection, deletion, and drags of the move   *)
(* gizmo, which update the building.                                       *)
(***************************************************************************)
\* the debounce interval of handlePointerDown has passed
Elapsed(w) == [w EXCEPT !.v.sinceLastClick = DebounceMs]

InitModes ==
  LET w == Placed(Elapsed(Placed(NewWorld, "flat", [x |-> 0 - CoordStep, z |-> 0])),
                  "dualPitch", Origin) IN
  /\ store = [w.s EXCEPT !.heap = [a \in Live(w) |-> w.s.heap[a]]]
  /\ view = w.v
  /\ editor = w.e
  /\ gizmo = w.g
  /\ elevation = w.el
  /\ pointer = NoDrag
  /\ ev = [op |-> "init", h |-> "none", p |-> Origin, n |-> 0, overlap |-> FALSE, m |-> Null]

NextModes ==
  \/ ToolbarSelect \/ ToolbarDelete \/ ToolbarMove \/ ToolbarEdit
  \/ GizmoDragBegin \/ GizmoDragMove \/ GizmoDragStop

SpecModes == InitModes /\ [][NextModes]_vars

(***************************************************************************)
(* The elevation view on its own, in each of its versions: a flat and a    *)
(* dual pitch building, the second one selected; the range input, the two  *)
(* drags, and selection and deletion from the toolbar.                     *)
(***************************************************************************)
InitElevation ==
  \E version \in ElevationVersions :
    LET w0 == [NewWorld EXCEPT !.el = NewElevation(version)]
        w == Placed(Elapsed(Placed(w0, "flat", [x |-> 0 - CoordStep, z |-> 0])),
                    "dualPitch", Origin) IN
    /\ store = [w.s EXCEPT !.heap = [a \in Live(w) |-> w.s.heap[a]]]
    /\ view = w.v
    /\ editor = w.e
    /\ gizmo = w.g
    /\ elevation = w.el
    /\ pointer = NoDrag
    /\ ev = [op |-> "init", h |-> "none", p |-> Origin, n |-> 0, overlap |-> FALSE, m |-> Null]

NextElevation ==
  \/ ToolbarSelect \/ ToolbarDelete \/ CommitPending
  \/ SliderChange \/ RoofDragStart \/ RoofDragMove \/ RoofDragStop
  \/ RidgeHandleDown \/ RidgeHandleMove \/ RidgeHandleUp

SpecElevation == InitElevation /\ [][NextElevation]_vars

(***************************************************************************)
(* Placement on its own: the roof buttons, the three click handlers and    *)
(* the clock, from the application as it starts.                           *)
(***************************************************************************)
NextPlace ==
  \/ ToolbarAddRoof \/ PointerDown \/ CanvasClick \/ GroundPick \/ Tick

SpecPlace == Init /\ [][NextPlace]_vars

\* placement with the pointer moving over the canvas
InitGhost ==
  /\ store = NewStore
  /\ view = NewView
  /\ editor = NewEditor
  /\ gizmo = NewGizmo
  /\ elevation = NewWorld.el
  /\ pointer = NoDrag
  /\ ev = [op |-> "init", h |-> "none", p |-> Origin, n |-> 0, overlap |-> FALSE, m |-> Null]

NextGhost == ToolbarAddRoof \/ PointerDown \/ PointerMove \/ Tick

SpecGhost == InitGhost /\ [][NextGhost]_vars

\* placement with a building selected and the Move and Edit buttons
NextPending ==
  \/ ToolbarAddRoof \/ PointerDown \/ Tick \/ ToolbarMove \/ ToolbarEdit

SpecPending == InitGhost /\ [][NextPending]_vars

(***************************************************************************)
(* Mesh construction (utils/buildingMeshes.ts and                          *)
(* utils/createEnhancedBuildingMesh.ts).  A call either throws or returns  *)
(* a parent mesh with its child meshes; the building handed in comes from  *)
(* JavaScript and may carry any type.                                      *)
(***************************************************************************)
MeshTypes == RoofTypes \cup {"hip", NoType}
Quarters == 0..3

MeshThrown == [thrown |-> TRUE, px |-> 0, pz |-> 0, rot |-> 0, parts |-> {}]

MeshOf(b, parts) ==
  [thrown |-> FALSE, px |-> b.px, pz |-> b.pz, rot |-> b.rotation, parts |-> parts]

CreateFlatRoofMesh(b) == MeshOf(b, {"building", "border"})

CreateDualPitchRoofMesh(b) == MeshOf(b, {"building", "ridge", "border"})

\* switch (building.type) { ... default: throw new Error(...) }
CreateBuildingMesh(b) ==
  IF b.type = "flat" THEN CreateFlatRoofMesh(b)
  ELSE IF b.type = "dualPitch" THEN CreateDualPitchRoofMesh(b)
  ELSE MeshThrown

\* walls for every building, a roof in the two branches of the if / else if
CreateEnhancedBuildingMesh(b) ==
  MeshOf(b, {"walls"} \cup (IF b.type = "flat" THEN {"roof"}
                            ELSE IF b.type = "dualPitch" THEN {"roof-mesh"}
                            ELSE {}))

\* the buildings handed to the mesh constructors
MeshInput(type, p, q) ==
  [PointerDownBuilding(1, type, p) EXCEPT !.rotation = q]

BuildMesh ==
  \E type \in MeshTypes : \E p \in Points : \E q \in Quarters :
    /\ ev' = [op |-> "createBuildingMesh", h |-> type, p |-> p, n |-> 0,
              overlap |-> FALSE, m |-> CreateBuildingMesh(MeshInput(type, p, q))]
    /\ UNCHANGED <<store, view, editor, gizmo, elevation, pointer>>

BuildEnhancedMesh ==
  \E type \in MeshTypes : \E p \in Points : \E q \in Quarters :
    /\ ev' = [op |-> "createEnhancedBuildingMesh", h |-> type, p |-> p, n |-> 0,
              overlap |-> FALSE,
              m |-> CreateEnhancedBuildingMesh(MeshInput(type, p, q))]
    /\ UNCHANGED <<store, view, editor, gizmo, elevation, pointer>>

NextMesh == BuildMesh \/ BuildEnhancedMesh

SpecMesh == InitGhost /\ [][NextMesh]_vars

(***************************************************************************)
(* The clamps of the controls on their own: Math.max(1, size) of the       *)
(* editor and the ridge clamp of the elevation view, applied to values     *)
(* from -2 to 5.                                                           *)
(***************************************************************************)
ClampInputs == (0 - 2 * Unit)..(5 * Unit)

ClampFootprint ==
  \E v \in ClampInputs :
    /\ ev' = [op |-> "minSize", h |-> "none", p |-> [x |-> v, z |-> MinSize(v)],
              n |-> 0, overlap |-> FALSE, m |-> Null]
    /\ UNCHANGED <<store, view, editor, gizmo, elevation, pointer>>

ClampRidgeHeight ==
  \E v \in ClampInputs :
    /\ ev' = [op |-> "clampRidge", h |-> "none",
              p |-> [x |-> v, z |-> ClampRidge(v)],
              n |-> 0, overlap |-> FALSE, m |-> Null]
    /\ UNCHANGED <<store, view, editor, gizmo, elevation, pointer>>

NextClamp == ClampFootprint \/ ClampRidgeHeight

SpecClamp == InitGhost /\ [][NextClamp]_vars

(***************************************************************************)
(* The gizmo-manager version of MainViewport on its own: a flat and a dual *)
(* pitch building, the second one selected; clicks that select, the Move,  *)
(* Rotate and Scale buttons, and drags of the three gizmos.                *)
(***************************************************************************)
MaxGizmoDrags == 1

\* the scalings a drag of the scale gizmo leaves on an axis: 0.25, 1, 2
ScaleFactors == {Unit \div 4, Unit, 2 * Unit}

\* the building literal of the gizmo-manager version's handlers
ManagerBuilding(id, type, p) ==
  [id |-> id, type |-> type, px |-> p.x, pz |-> p.z, rotation |-> 0,
   width |-> 3 * Unit, length |-> 5 * Unit, height |-> 2 * Unit,
   ridgeHeight |-> IF type = "dualPitch" THEN Unit ELSE Undefined,
   ridgeOffset |-> IF type = "dualPitch" THEN 0 ELSE Undefined]

\* handlePointerDown in placement mode, the ghost at p
ManagerPlaced(w, type, p) ==
  ManagerCommit([w EXCEPT !.s = SetPlacementMode(
     AddBuilding([w.s EXCEPT !.nextId = w.s.nextId + 1],
                 ManagerBuilding(w.s.nextId, type, p)), FALSE)])

InitManager ==
  LET w == ManagerPlaced(ManagerPlaced(NewWorld, "flat",
                                       [x |-> 0 - CoordStep, z |-> 0]),
                         "dualPitch", Origin) IN
  /\ store = [w.s EXCEPT !.heap = [a \in Live(w) |-> w.s.heap[a]]]
  /\ view = w.v
  /\ editor = w.e
  /\ gizmo = w.g
  /\ elevation = w.el
  /\ pointer = NoDrag
  /\ ev = [op |-> "init", h |-> "none", p |-> Origin, n |-> 0, overlap |-> FALSE, m |-> Null]

\* a click on a building or on the ground, outside placement mode
ManagerPointerDown ==
  \E id \in DOMAIN view.meshes \cup {Null} :
    /\ ~view.rendered.placementMode
    /\ pointer' = pointer
    /\ Finish(ManagerCommit([World EXCEPT !.s = SelectBuilding(store, id),
                                          !.m = id]),
              "managerPointerDown", IF id = Null THEN "ground" ELSE "building",
              Origin)

\* the Move, Rotate and Scale buttons, rendered while a building is selected
ManagerMove ==
  /\ view.rendered.selectedBuildingId # Null
  /\ pointer' = pointer
  /\ Finish(EnableTranslateGizmo(World, view.rendered), "enableTranslateGizmo",
            "none", Origin)

ManagerRotate ==
  /\ view.rendered.selectedBuildingId # Null
  /\ pointer' = pointer
  /\ Finish(EnableRotateGizmo(World, view.rendered), "enableRotateGizmo",
            "none", Origin)

ManagerScale ==
  /\ view.rendered.selectedBuildingId # Null
  /\ pointer' = pointer
  /\ Finish(EnableScaleGizmo(World, view.rendered), "enableScaleGizmo",
            "none", Origin)

\* the gizmos a pointer can drag: an enabled gizmo of the manager on the
\* mesh the manager is attached to, and the plane rotation gizmo
LiveGizmos ==
  (IF view.gm.positionGizmoEnabled /\ view.gm.attachedMesh # Null
   THEN {"position"} ELSE {})
  \cup (IF view.gm.scaleGizmoEnabled /\ view.gm.attachedMesh # Null
        THEN {"scale"} ELSE {})
  \cup (IF view.gm.plane.exists /\ ~view.gm.plane.stale THEN {"plane"} ELSE {})

\* a drag step of the position gizmo: the mesh moves along one axis
PositionGizmoDrag ==
  \E d \in {d \in Deltas : AxisAligned(d) /\ d # Origin} :
    LET id == view.gm.attachedMesh IN
    /\ "position" \in LiveGizmos
    /\ view.gm.drags < MaxGizmoDrags
    /\ InReach(view.meshes[id].px + d.x) /\ InReach(view.meshes[id].pz + d.z)
    /\ pointer' = pointer
    /\ Finish([World EXCEPT !.v.meshes[id].px = @ + d.x,
                            !.v.meshes[id].pz = @ + d.z],
              "managerDrag", "position", d)

\* a drag step of the scale gizmo
ScaleGizmoDrag ==
  \E fx, fz \in ScaleFactors :
    /\ "scale" \in LiveGizmos
    /\ view.gm.drags < MaxGizmoDrags
    /\ pointer' = pointer
    /\ Finish([World EXCEPT !.v.gm.scaling = [x |-> fx, z |-> fz]],
              "managerDrag", "scale", [x |-> fx, z |-> fz])

\* a drag step of the plane rotation gizmo
PlaneGizmoDrag ==
  \E q \in Quarters :
    LET id == view.gm.plane.attachedMesh IN
    /\ "plane" \in LiveGizmos
    /\ view.gm.drags < MaxGizmoDrags
    /\ pointer' = pointer
    /\ Finish([World EXCEPT !.v.meshes[id].rot = (@ + q) % 4],
              "managerDrag", "plane", [x |-> q, z |-> 0])

\* onDragEndObservable of a gizmo
ManagerDragEnd ==
  \E g \in LiveGizmos :
    /\ view.gm.drags < MaxGizmoDrags
    /\ pointer' = pointer
    /\ Finish(ManagerCommit([SyncMeshWithBuilding(World, g)
                               EXCEPT !.v.gm.drags = @ + 1]),
              "managerDragEnd", g, Origin)

NextManager ==
  \/ ManagerPointerDown \/ ManagerMove \/ ManagerRotate \/ ManagerScale
  \/ PositionGizmoDrag \/ ScaleGizmoDrag \/ PlaneGizmoDrag \/ ManagerDragEnd

SpecManager == InitManager /\ [][NextManager]_vars

(***************************************************************************)
(* One physical click in placement mode.  The browser delivers it as a     *)
(* pointer-down, a pointer-up (on which the ground's OnPickTrigger fires)  *)
(* and a click; each of the three handlers sees it once, here in any       *)
(* order.  The render that follows a handler's setPlacementMode(false),    *)
(* and with it the effect that copies placementMode into placementModeRef, *)
(* is a step of its own that may come before or after the next handler; it *)
(* comes before the clock has advanced by a tick.                          *)
(***************************************************************************)
ClickBegins(p) ==
  /\ view.click.pending = {}
  /\ store.dirty = {}
  /\ store.placementMode /\ view.placementModeRef
  /\ store.currentRoofType # NoType /\ view.currentRoofTypeRef # NoType
  /\ CanPick(view, GroundAt(p))

\* handler `name` sees the click at p: the first one of a new click, or one
\* that has still to see the click being delivered
Delivered(w, name, p) ==
  IF view.click.pending = {}
  THEN [w EXCEPT !.v.click =
          [started |-> TRUE, pending |-> ClickHandlers \ {name}, p |-> p,
           before |-> Len(store.buildings),
           fresh |-> ~Debounced(view)]]
  ELSE [w EXCEPT !.v.click.pending = @ \ {name}]

Deliverable(name, p) ==
  /\ pointer.ctl = "none"
  /\ store.nextId <= MaxBuildings
  /\ \/ ClickBegins(p)
     \/ name \in view.click.pending /\ p = view.click.p

ClickPointerDown ==
  \E p \in PickPoints :
    /\ Deliverable("pointerDown", p)
    /\ pointer' = pointer
    /\ Finish(Delivered(PointerDownObserver(World, GroundAt(p), TRUE),
                        "pointerDown", p),
              "clickPointerDown", "ground", p)

ClickGroundAction ==
  \E p \in PickPoints : \E hasPoint \in BOOLEAN :
    /\ Deliverable("groundAction", p)
    /\ pointer' = pointer
    /\ Finish(Delivered(GroundAction(World,
                          [GroundAt(p) EXCEPT !.point = hasPoint]),
                        "groundAction", p),
              "clickGroundAction", "ground", p)

ClickCanvasClick ==
  \E p \in PickPoints :
    /\ Deliverable("canvasClick", p)
    /\ pointer' = pointer
    /\ Finish(Delivered(CanvasClickHandler(World, GroundAt(p)),
                        "canvasClick", p),
              "clickCanvasClick", "ground", p)

\* a roof button, between two clicks
ClickAddRoof == view.click.pending = {} /\ ToolbarAddRoof

\* time passes once the pending render has been committed
ClickTick == store.dirty = {} /\ Tick

NextClick ==
  \/ ClickAddRoof \/ ClickPointerDown \/ ClickGroundAction
  \/ ClickCanvasClick \/ CommitPending \/ ClickTick

SpecClick == Init /\ [][NextClick]_vars

(***************************************************************************)
(* Selection changes while a handle of the editor is dragged: two          *)
(* buildings, the editor on the selected one, resize drags and the         *)
(* selection control.                                                      *)
(***************************************************************************)
InitReattach ==
  LET w == Commit(EnableBuildingEditor(
             Placed(Elapsed(Placed(NewWorld, "flat",
                                   [x |-> 0 - CoordStep, z |-> 0])),
                    "dualPitch", Origin))) IN
  /\ store = [w.s EXCEPT !.heap = [a \in Live(w) |-> w.s.heap[a]]]
  /\ view = w.v
  /\ editor = w.e
  /\ gizmo = w.g
  /\ elevation = w.el
  /\ pointer = NoDrag
  /\ ev = [op |-> "init", h |-> "none", p |-> Origin, n |-> 0, overlap |-> FALSE, m |-> Null]

\* pointer-down on a corner handle
CornerDragStart == ResizeDragStart /\ pointer'.h \in Corners

\* onDrag of the handle, the pointer on a diagonal of the frame captured at
\* drag-start and the handle under it
DiagonalResizeMove ==
  LocalResizeMove /\ ev'.p \in PickPoints /\ pointer'.moved

NextReattach ==
  \/ ToolbarSelect \/ CornerDragStart \/ DiagonalResizeMove \/ EditorDragStop
  \/ CommitPending

SpecReattach == InitReattach /\ [][NextReattach]_vars

(***************************************************************************)
(* The handle drag of the elevation view as the window sees it: the mouse  *)
(* button goes down on a ridge handle, the mouse moves over the window     *)
(* whether the button is down or not, and the button goes up.  A mouse-     *)
(* move or a mouse-up reaches handleMouseMove or handleMouseUp while they  *)
(* are registered on the window, and nobody otherwise.                     *)
(***************************************************************************)
MaxHandleDrags == 2

InitHandle == InitElevation /\ elevation.version = "handles"

\* mouse-down on a ridge handle
HandleGrab ==
  \E y \in MouseYs("handles") :
    /\ RenderedSelection # Null
    /\ store.heap[RenderedSelection].type # "flat"
    /\ pointer.ctl = "none"
    /\ elevation.drags < MaxHandleDrags
    /\ pointer' = [pointer EXCEPT !.ctl = "ridge"]
    /\ Finish([HandleHandleMouseDown(World, y) EXCEPT !.el.drags = @ + 1],
              "handleGrab", "none", Origin)

\* mouse-move on the window
WindowMouseMove ==
  \E y \in MouseYs("handles") :
    /\ pointer' = pointer
    /\ Finish(IF elevation.drag.listening THEN HandleMouseMove(World, y)
              ELSE [World EXCEPT !.el.clientY = y],
              "windowMouseMove", "none", Origin)

\* mouse-up on the window
WindowMouseUp ==
  /\ pointer.ctl = "ridge"
  /\ pointer' = [pointer EXCEPT !.ctl = "none"]
  /\ Finish(IF elevation.drag.listening THEN HandleMouseUp(World) ELSE World,
            "windowMouseUp", "none", Origin)

NextHandle == HandleGrab \/ WindowMouseMove \/ WindowMouseUp \/ CommitPending

SpecHandle == InitHandle /\ [][NextHandle]_vars

(***************************************************************************)
(* The store through its interface, as the components call it: addBuilding *)
(* with a building of a fresh id, selectBuilding from the toolbar's list,  *)
(* deleteBuilding, and updateBuilding of any id a caller may still hold,   *)
(* that of a deleted building included.  Every call is followed by the     *)
(* render it schedules.                                                    *)
(***************************************************************************)
MaxStoreBuildings == 2

StoreIds == 1..MaxStoreBuildings

\* the records callers pass to updateBuilding: a ridge height, a position
\* and rotation, or a size
UpdateKinds == {"ridgeHeight", "pose", "size"}

StoreUpdates(kind, p) ==
  IF kind = "ridgeHeight" THEN [ridgeHeight |-> 2 * Unit + p.x]
  ELSE IF kind = "pose" THEN [px |-> p.x, pz |-> p.z, rotation |-> 1]
  ELSE [width |-> 4 * Unit + p.x, length |-> 2 * Unit + p.z]

\* where the model places buildings and what it passes in updates
StorePoints == {[x |-> CoordStep, z |-> 0 - CoordStep]}

InitStore == Init /\ elevation.version = "slider"

StoreAddBuilding ==
  \E type \in RoofTypes : \E p \in StorePoints :
    /\ store.nextId <= MaxStoreBuildings
    /\ pointer' = pointer
    /\ Finish(Commit([World EXCEPT
                !.m = store.nextId,
                !.s = AddBuilding([store EXCEPT !.nextId = @ + 1],
                        PointerDownBuilding(store.nextId, type, p))]),
              "storeAdd", type, p)

StoreDeleteBuilding ==
  \E id \in {store.heap[a].id : a \in Range(view.rendered.buildings)} :
    /\ pointer' = pointer
    /\ Finish(Commit([World EXCEPT
                !.m = id,
                !.s = DeleteBuilding(store, id,
                                     view.rendered.selectedBuildingId)]),
              "storeDelete", "none", Origin)

StoreUpdateBuilding ==
  \E id \in StoreIds : \E kind \in UpdateKinds : \E p \in StorePoints :
    /\ pointer' = pointer
    /\ Finish(Commit([World EXCEPT
                !.m = id,
                !.s = UpdateBuilding(store, id, StoreUpdates(kind, p))]),
              "storeUpdate", kind, p)

NextStore ==
  \/ StoreAddBuilding \/ ToolbarSelect \/ StoreDeleteBuilding
  \/ StoreUpdateBuilding

SpecStore == InitStore /\ [][NextStore]_vars

(***************************************************************************)
(* Claims.                                                                 *)
(***************************************************************************)

\* C1: after every drag-move step of a corner or edge drag, the width and
\* the length of the building (the object the editor writes and every copy
\* the store holds) are at least 1, wherever the pointer is.
C1_MinimumSize ==
  ev.op = "editorResize" =>
    \A a \in DOMAIN store.heap :
      store.heap[a].width >= Unit /\ store.heap[a].length >= Unit

\* C1 witness: a corner drag step of a building that was 3 by 5 at the
\* start of the drag has left it 1 by 1: the pointer was within half a
\* unit of the centre on both axes, where twice its distance is below 1.
C1_Witness ==
  /\ ev.op = "editorResize" /\ ev.h \in Corners /\ Attached(editor)
  /\ editor.meta[ev.h].initialWidth = 3 * Unit
  /\ editor.meta[ev.h].initialLength = 5 * Unit
  /\ store.heap[editor.building].width = Unit
  /\ store.heap[editor.building].length = Unit


\* C2: a rotation drag starts from the rotation the building has, with no
\* drag angle captured.  The first move of the drag that the handler
\* processes captures the pointer's angle and leaves the rotation at the
\* rotation of the drag's start; every later one keeps the captured angle
\* and sets the rotation to initialRotation + (current angle - captured
\* angle).  What an earlier drag had captured plays no part.
C2_RotateStep ==
  [][ /\ (ev'.op = "editorDragStart" /\ ev'.h = "rotation") =>
           /\ editor'.rotMeta.initialRotation = store.heap[editor.building].rotation
           /\ ~editor'.rotMeta.isDragging
           /\ ~editor'.rotMeta.hasInitialDragAngle
      /\ (ev'.op = "editorRotation" /\ Attached(editor)) =>
           LET md == editor.rotMeta
               current == Atan2(ev'.p.x - md.cx, ev'.p.z - md.cz)
               rotation == store'.heap[editor'.building].rotation
           IN /\ editor'.rotMeta.hasInitialDragAngle
              /\ editor'.rotMeta.initialRotation = md.initialRotation
              /\ IF ~pointer.stepped
                 THEN /\ editor'.rotMeta.initialDragAngle = current
                      /\ rotation = md.initialRotation
                 ELSE /\ editor'.rotMeta.initialDragAngle = md.initialDragAngle
                      /\ rotation = md.initialRotation
                                      + (current - md.initialDragAngle)
    ]_vars

\* C2 witness: a later step of a drag that follows an earlier rotation drag:
\* the building stood rotated when the drag started, the angle captured now
\* differs from the one captured then, and the pointer has moved on from it.
C2_Witness ==
  /\ ev.op = "editorRotation" /\ Attached(editor)
  /\ pointer.prev.has
  /\ editor.rotMeta.initialDragAngle # pointer.prev.angle
  /\ editor.rotMeta.initialRotation # 0
  /\ Atan2(ev.p.x - editor.rotMeta.cx, ev.p.z - editor.rotMeta.cz)
       # editor.rotMeta.initialDragAngle
  /\ store.heap[editor.building].rotation
       = editor.rotMeta.initialRotation
           + Atan2(ev.p.x - editor.rotMeta.cx, ev.p.z - editor.rotMeta.cz)
           - editor.rotMeta.initialDragAngle


\* C3: a drag-move of the move gizmo with pointer delta (dx, dz) changes the
\* position of the target, mesh and building record alike, by (dx, dz) on
\* the center handle, by (dx, 0) on either mesh of the X arrow and by
\* (0, dz) on either mesh of the Z arrow.
C3_ConstrainedMove ==
  [][ (ev'.op = "gizmoDrag" /\ Attached(gizmo)) =>
        LET b0 == store.heap[gizmo.building]
            b1 == store'.heap[gizmo'.building]
            m0 == view.meshes[gizmo.targetMesh]
            m1 == view'.meshes[gizmo'.targetMesh]
            dx == IF ev'.h \in {"center", "xShaft", "xArrow"} THEN ev'.p.x ELSE 0
            dz == IF ev'.h \in {"center", "zShaft", "zArrow"} THEN ev'.p.z ELSE 0
        IN /\ m1.px = m0.px + dx /\ m1.pz = m0.pz + dz
           /\ b1.px = b0.px + dx /\ b1.pz = b0.pz + dz
    ]_vars

\* C3 witness: a diagonal pointer movement on the X arrow has been applied:
\* the building has left the x it had at the start of the drag and kept
\* its z.
C3_Witness ==
  /\ ev.op = "gizmoDrag" /\ ev.h \in {"xShaft", "xArrow"} /\ Attached(gizmo)
  /\ ev.p.x # 0 /\ ev.p.z # 0
  /\ store.heap[gizmo.building].px # gizmo.meta[ev.h].ipx
  /\ store.heap[gizmo.building].pz = gizmo.meta[ev.h].ipz


\* C4: once detach() has run on a control (its root is hidden), a drag-move
\* or a drag-end of the drag still in progress on it leaves the buildings
\* array and every building object as they were and notifies nobody.
C4_DetachedDragIsInert ==
  [][ ( \/ /\ ev'.op \in {"editorResize", "editorRotation", "editorMove",
                          "editorDragEnd"}
           /\ ~editor.rootEnabled
        \/ /\ ev'.op \in {"gizmoDrag", "gizmoDragEnd"}
           /\ ~gizmo.rootEnabled )
      => /\ store'.buildings = store.buildings
         /\ store'.heap = store.heap
         /\ view'.meshes = view.meshes
         /\ ev'.n = 0
    ]_vars

\* C4 witness: a resize drag had changed the building, the editor was then
\* detached, and a further move of the same drag has been delivered.
C4_Witness ==
  /\ ev.op = "editorResize" /\ pointer.ctl = "editor" /\ pointer.stepped
  /\ ~editor.rootEnabled /\ ~Attached(editor)
  /\ ev.n = 0


\* the building the last placement appended is a fresh one of the chosen
\* type at point p with the default fields, and placement mode is off
PlacedAt(p) ==
  /\ Len(store'.buildings) = Len(store.buildings) + 1
  /\ SubSeq(store'.buildings, 1, Len(store.buildings)) = store.buildings
  /\ LET b == store'.heap[store'.buildings[Len(store'.buildings)]] IN
       /\ \A a \in Range(store.buildings) : store.heap[a].id # b.id
       /\ b.type = store.currentRoofType
       /\ b.px = p.x /\ b.pz = p.z /\ b.rotation = 0
       /\ b.width = 3 * Unit /\ b.length = 5 * Unit /\ b.height = 5 * Unit
       /\ b.ridgeHeight = (IF b.type = "dualPitch" THEN Unit ELSE Undefined)
       /\ b.ridgeOffset = (IF b.type = "dualPitch" THEN 0 ELSE Undefined)
  /\ ~store'.placementMode

\* C10 as stated: every pointer-down that hits the ground while
\* placementMode is true and a roof type is chosen adds the building; and
\* whichever of the three handlers adds a building adds it with these
\* fields.
C10_AsStated ==
  [][ /\ ( /\ ev'.op = "pointerDown" /\ ev'.h = "ground"
           /\ store.placementMode /\ store.currentRoofType # NoType )
         => PlacedAt(ev'.p)
      /\ ( /\ ev'.op \in {"pointerDown", "canvasClick", "groundAction"}
           /\ store'.buildings # store.buildings )
         => PlacedAt(ev'.p)
    ]_vars

\* C10, amended: the pointer-down adds the building when, besides, the last
\* accepted placement click is at least 300 ms old; a younger one makes the
\* handler return without adding anything.
C10_Placement ==
  [][ /\ ( /\ ev'.op = "pointerDown" /\ ev'.h = "ground"
           /\ store.placementMode /\ store.currentRoofType # NoType )
         => IF view.sinceLastClick >= DebounceMs THEN PlacedAt(ev'.p)
            ELSE store' = store
      /\ ( /\ ev'.op \in {"pointerDown", "canvasClick", "groundAction"}
           /\ store'.buildings # store.buildings )
         => PlacedAt(ev'.p)
    ]_vars

\* C10 witness: a pointer-down has placed a second building, a dual pitch
\* roof, away from the origin.
C10_Witness ==
  /\ ev.op = "pointerDown" /\ ev.h = "ground"
  /\ Len(store.buildings) = 2
  /\ ~store.placementMode
  /\ LET b == store.heap[store.buildings[2]] IN
       /\ b.type = "dualPitch" /\ b.ridgeHeight = Unit
       /\ b.px = ev.p.x /\ b.pz = ev.p.z /\ b.px # 0 /\ b.pz # b.px

\* C5: in every reachable state at most one of the move gizmo and the
\* building editor is attached, and no handler attached one of them at an
\* instant at which the other was still attached.
C5_OneControl ==
  /\ ~(Attached(editor) /\ Attached(gizmo))
  /\ ~ev.overlap

\* C5 witness: the Move button has been pressed after the editor had been
\* attached (its handles are laid out for a building, which a gizmo drag had
\* moved before); now the gizmo alone is attached, to the selected building.
C5_Witness ==
  /\ ev.op = "enableMoveGizmo"
  /\ editor.w = 3 * Unit /\ editor.root.px # 0 - CoordStep
  /\ \E h \in GizmoHandles : gizmo.meta[h].set
  /\ Attached(gizmo) /\ ~Attached(editor)
  /\ store.heap[gizmo.building].id = store.selectedBuildingId
  /\ Len(store.buildings) = 2

\* C6: after every drag-end of the editor, and whenever the editor is
\* detached, no handle carries a drag-start baseline: the initial width,
\* length and world matrix of the corner and edge handles, the initial
\* rotation and initial drag angle of the rotation handle and the initial
\* position of the move handle are all unset.
C6_SessionStateCleared ==
  (ev.op = "editorDragEnd" \/ ~Attached(editor)) =>
    /\ \A h \in ResizeHandles : ~editor.meta[h].set
    /\ ~editor.rotMeta.set /\ ~editor.rotMeta.hasInitialDragAngle
    /\ ~editor.dragMeta.set

\* C7: in the handle drag of the elevation view, the mouse-down captures the
\* mouse height and the clamped ridge height of the selected building, and
\* every mouse-move writes
\*   clamp(ridgeHeightAtMouseDown + (mouseYAtMouseDown - currentMouseY)
\*           * heightChangePerPixel, MIN_RIDGE_HEIGHT, MAX_RIDGE_HEIGHT)
\* to the building the drag began on, leaving what the mouse-down captured
\* as it was: the delta is cumulative, and every value written is inside
\* [MIN_RIDGE_HEIGHT, MAX_RIDGE_HEIGHT].  A start of 1 and a delta worth +2.0
\* write exactly 3, under the view's maximum of 3.75 as under a maximum of 3.
C7_HandleDrag ==
  [][ /\ ev'.op = "handleMouseDown" =>
           /\ elevation'.drag.isDragging
           /\ elevation'.drag.y0 = elevation'.clientY
           /\ elevation'.drag.h0 =
                LET h == store.heap[RenderedSelection].ridgeHeight IN
                IF h < MIN_RIDGE_HEIGHT THEN MIN_RIDGE_HEIGHT
                ELSE IF h > MAX_RIDGE_HEIGHT THEN MAX_RIDGE_HEIGHT ELSE h
      /\ (ev'.op = "handleMouseMove" /\ elevation.drag.isDragging) =>
           LET md == elevation.drag
               raw == md.h0 + ((md.y0 - elevation'.clientY)
                                 * (MAX_RIDGE_HEIGHT - MIN_RIDGE_HEIGHT))
                               \div ((MAX_VISUAL_HEIGHT - MIN_VISUAL_HEIGHT)
                                      * SubPixel)
               clamped == IF raw < MIN_RIDGE_HEIGHT THEN MIN_RIDGE_HEIGHT
                          ELSE IF raw > MAX_RIDGE_HEIGHT THEN MAX_RIDGE_HEIGHT
                          ELSE raw
           IN /\ elevation'.drag = md
              /\ \A i \in DOMAIN store'.buildings :
                   LET b == store'.heap[store'.buildings[i]] IN
                   IF b.id = md.id
                   THEN /\ b.ridgeHeight = clamped
                        /\ b.ridgeHeight >= MIN_RIDGE_HEIGHT
                        /\ b.ridgeHeight <= MAX_RIDGE_HEIGHT
                        /\ (md.h0 = Unit /\ raw = 3 * Unit) =>
                             b.ridgeHeight = Min(3 * Unit, raw)
                   ELSE b = store.heap[store.buildings[i]]
    ]_vars

\* C7 witness: a mouse-move of a handle drag that began at a ridge height of
\* 1, the mouse now 2.0 of height above where it went down: the building
\* has a ridge height of 3.
C7_Witness ==
  /\ ev.op = "handleMouseMove"
  /\ elevation.drag.isDragging /\ elevation.drag.h0 = Unit
  /\ elevation.drag.y0 - elevation.clientY = 2 * YStep("handles")
  /\ \E a \in Range(store.buildings) :
       /\ store.heap[a].id = elevation.drag.id
       /\ store.heap[a].ridgeHeight = 3 * Unit

\* C8: in the Babylon version of the elevation view every dual pitch
\* building has 0.2 <= ridgeHeight <= 3, the limits of the range input, at
\* rest and after every step of a roof drag and every change of the input.
C8_RidgeWithinSlider ==
  elevation.version = "babylon" =>
    \A a \in Range(store.buildings) :
      store.heap[a].type = "dualPitch" =>
        /\ store.heap[a].ridgeHeight >= SliderMin
        /\ store.heap[a].ridgeHeight <= SliderMax

\* C9: no building of type flat ever has a ridgeHeight, whatever the range
\* input, the handle drag and the roof drag do, and whatever the selection
\* becomes while a drag is in progress.
C9_FlatHasNoRidge ==
  \A a \in DOMAIN store.heap :
    store.heap[a].type = "flat" => store.heap[a].ridgeHeight = Undefined

\* C9 witness: a mouse-move of a handle drag has changed the ridge height of
\* the dual pitch building the drag began on, while the building selected,
\* in the store and in the last render, is a flat one.
C9_Witness ==
  /\ ev.op = "handleMouseMove" /\ elevation.drag.isDragging
  /\ store.selectedBuildingId # elevation.drag.id
  /\ view.rendered.selectedBuildingId = store.selectedBuildingId
  /\ \E a \in Range(store.buildings) :
       /\ store.heap[a].id = store.selectedBuildingId
       /\ store.heap[a].type = "flat"
  /\ \E a \in Range(store.buildings) :
       /\ store.heap[a].id = elevation.drag.id
       /\ store.heap[a].type = "dualPitch"
       /\ store.heap[a].ridgeHeight = 0

\* C11: a pointer-move changes nothing but the ghost's position and
\* visibility: the buildings, their records and the selection are as they
\* were, as are the controls and the meshes; and in every reachable state no
\* building of the collection has the ghost's id.
C11_MoveTouchesGhostOnly ==
  /\ [][ ev'.op = "pointerMove" =>
           /\ store'.buildings = store.buildings
           /\ store'.heap = store.heap
           /\ store'.selectedBuildingId = store.selectedBuildingId
           /\ store'.placementMode = store.placementMode
           /\ editor' = editor /\ gizmo' = gizmo
           /\ view' = [view EXCEPT !.ghost.enabled = view'.ghost.enabled,
                                   !.ghost.px = view'.ghost.px,
                                   !.ghost.pz = view'.ghost.pz]
       ]_vars
  /\ [](\A a \in DOMAIN store.heap :
          store.heap[a].id # GhostId /\ store.heap[a].id # view.ghost.id)

\* C11 witness: in placement mode, with a building placed before, a
\* pointer-move over the ground has shown the ghost away from the origin.
C11_Witness ==
  /\ ev.op = "pointerMove" /\ ev.h = "ground"
  /\ store.placementMode /\ view.placementModeRef
  /\ Len(store.buildings) = 1
  /\ view.ghost.exists /\ view.ghost.enabled /\ view.ghost.id = GhostId
  /\ view.ghost.px = ev.p.x /\ view.ghost.pz = ev.p.z /\ view.ghost.px # 0

\* C12: while not in placement mode, a pointer-down on the mesh of a
\* building makes that building the selected one, and a pointer-down on the
\* ground leaves no building selected.
C12_ClickSelects ==
  [][ (ev'.op = "pointerDown" /\ ~store.placementMode /\ ~view.placementModeRef) =>
        /\ ev'.m # Null => store'.selectedBuildingId = ev'.m
        /\ ev'.h = "ground" => store'.selectedBuildingId = Null
    ]_vars

C14_ResizeKeepsPose ==
  [][ (/\ ev'.op \in {"localResize", "editorDragEnd"}
       /\ pointer.h \in ResizeHandles
       /\ Attached(editor)) =>
        LET b == store.heap[editor.building] IN
        /\ \E a \in DOMAIN store'.heap : store'.heap[a].id = b.id
        /\ \A a \in DOMAIN store'.heap :
             store'.heap[a].id = b.id =>
               /\ PoseOf(store'.heap[a]) = pointer.at
               /\ \A f \in DOMAIN b \ {"width", "length"} :
                    store'.heap[a][f] = b[f]
        /\ \A id \in BuildingIds :
             id \in DOMAIN view'.meshes /\ id = b.id =>
               /\ view'.meshes[id].px = pointer.at.px
               /\ view'.meshes[id].pz = pointer.at.pz
               /\ view'.meshes[id].rot = pointer.at.rotation ]_vars

\* C14 witness: a released resize drag of a building that stands rotated
\* away from the origin, its size changed and the store notified
C14_Witness ==
  /\ ev.op = "editorDragEnd" /\ ev.h \in ResizeHandles /\ ev.n > 0
  /\ Attached(editor)
  /\ pointer.at.rotation # 0 /\ pointer.at.px # 0
  /\ store.heap[editor.building].width # 3 * Unit
  /\ PoseOf(store.heap[editor.building]) = pointer.at

\* the size a corner drag step commits from a building of size (w, l) whose
\* drag began at (w0, l0), the pointer at l in the building's local frame:
\* computed in that frame alone, with no rotation and no position in it
LocalCornerSize(h, w0, l0, w, l, at, moved) ==
  CornerSize([initialWidth |-> w0, initialLength |-> l0], at,
             IF moved THEN at
             ELSE [x |-> (OriginalPosition(h).x * w) \div 2,
                   z |-> (OriginalPosition(h).z * l) \div 2])

\* C15: a drag of the topRight corner writes, at every step, the width and
\* length that follow from the size at drag-start, the size before the step
\* and the pointer's position in the building's local frame, and from
\* nothing else: two drags from the same size that visit the same local
\* positions write the same sizes, whatever the rotation and the position
\* of the building at drag-start.
C15_FrameIndependent ==
  [][ (/\ ev'.op = "localResize" /\ ev'.h = "topRight"
       /\ Attached(editor) /\ editor.meta["topRight"].set) =>
        LET b == store.heap[editor.building]
            md == editor.meta["topRight"]
            size == LocalCornerSize("topRight", md.initialWidth, md.initialLength,
                                    b.width, b.length, ev'.p, pointer'.moved)
        IN \A a \in DOMAIN store'.heap :
             store'.heap[a].id = b.id =>
               /\ store'.heap[a].width = size.width
               /\ store'.heap[a].length = size.length ]_vars

\* C15 witness: a step of a topRight drag of a building that stands a
\* quarter turn round and away from the origin, the pointer at local
\* (1, -1): the width shrinks to 2 and the length to 2
C15_Witness ==
  /\ ev.op = "localResize" /\ ev.h = "topRight" /\ Attached(editor)
  /\ ev.p = [x |-> CoordStep, z |-> 0 - CoordStep]
  /\ pointer.at.rotation \in {1, 0 - 1, 3, 0 - 3} /\ pointer.at.pz # 0
  /\ store.heap[editor.building].width = 2 * Unit
  /\ store.heap[editor.building].length = 2 * Unit

\* two angles in quarter turns that stand for the same direction
SameAngle(q1, q2) == (q1 - q2) % 4 = 0

\* C16: after every drag-move step of a rotate drag the editor's root node
\* (which carries the corners, the edges and the bounding box) and the
\* parent of the rotation handle have the rotation the step gave the
\* building, with no drag-end and no re-attach in between.
C16_HandlesFollowRotation ==
  [][ (ev'.op = "editorRotation" /\ Attached(editor)) =>
        LET rotation == store'.heap[editor'.building].rotation IN
        /\ SameAngle(editor'.root.rot, rotation)
        /\ SameAngle(editor'.rotParent.rot, rotation) ]_vars

\* C17: whenever the editor is attached (after attach() and after every
\* resize step), the handles are at the local offsets that follow from the
\* building's current width and length, the bounding box is scaled to
\* (width, length) and the rotation handle is at local z = -length/2 - 0.5.
C17_HandleOffsets ==
  Attached(editor) =>
    LET b == store.heap[editor.building]
        hw == b.width \div 2
        hl == b.length \div 2
        at(h) == HandleLocalPosition(editor, h)
    IN /\ at("topLeft") = [x |-> 0 - hw, z |-> 0 - hl]
       /\ at("topRight") = [x |-> hw, z |-> 0 - hl]
       /\ at("bottomLeft") = [x |-> 0 - hw, z |-> hl]
       /\ at("bottomRight") = [x |-> hw, z |-> hl]
       /\ at("top") = [x |-> 0, z |-> 0 - hl]
       /\ at("bottom") = [x |-> 0, z |-> hl]
       /\ at("left") = [x |-> 0 - hw, z |-> 0]
       /\ at("right") = [x |-> hw, z |-> 0]
       /\ BoundingBoxScaling(editor) = [x |-> b.width, z |-> b.length]
       /\ editor.rotHandleZ = 0 - hl - Unit \div 2

\* C17 witness: a resize step has made the building 2 wide and 1 long, and
\* the editor is attached to it
C17_Witness ==
  /\ ev.op = "localResize" /\ Attached(editor)
  /\ store.heap[editor.building].width = 2 * Unit
  /\ store.heap[editor.building].length = Unit
  /\ HandleLocalPosition(editor, "bottomRight") = [x |-> Unit, z |-> Unit \div 2]

\* C18: a drag-move step of the move gizmo notifies nobody and leaves the
\* store's buildings array as it was; the drag-end of a drag that ends while
\* the gizmo is attached notifies onBuildingMovedObservable exactly once,
\* and the store then holds the position the drag left the building at.
C18_MovedOnceAtDragEnd ==
  [][ /\ ev'.op = "gizmoDrag" =>
           /\ ev'.n = 0
           /\ store'.buildings = store.buildings
           /\ store'.dirty = store.dirty
      /\ (ev'.op = "gizmoDragEnd" /\ Attached(gizmo)) =>
           LET b == store.heap[gizmo.building]
               a == FindIn(store'.heap, store'.buildings, b.id)
           IN /\ ev'.n = 1
              /\ a # Null
              /\ store'.heap[a].px = b.px /\ store'.heap[a].pz = b.pz ]_vars

\* C18 witness: a drag of the move gizmo that moved the building away from
\* where it was placed has ended, with its one notification
C18_Witness ==
  /\ ev.op = "gizmoDragEnd" /\ ev.n = 1 /\ pointer.stepped /\ Attached(gizmo)
  /\ store.heap[gizmo.building].px # 0
  /\ store.heap[gizmo.building].pz # 0

\* C19: every drag-move step of a move drag (BuildingMoveGizmo) and of a
\* rotate drag (BuildingEditor) is handed to the store: the step notifies its
\* observer, whose updateBuilding call leaves a new buildings array for the
\* views to render.
C19_StepsReachStore ==
  [][ ( \/ ev'.op = "gizmoDrag" /\ Attached(gizmo)
        \/ ev'.op = "editorRotation" /\ Attached(editor) ) =>
        /\ ev'.n >= 1
        /\ "buildings" \in store'.dirty ]_vars

\* C20: in every state where placementMode is true, neither the move gizmo
\* nor the building editor is attached to a building and no building mesh is
\* pickable, from the moment a toolbar button sets placementMode, also with
\* a building selected and an editor mode active.
C20_PlacementDisablesControls ==
  store.placementMode =>
    /\ ~Attached(editor)
    /\ ~Attached(gizmo)
    /\ \A id \in DOMAIN view.meshes : ~view.meshes[id].pickable

\* C21: createBuildingMesh and createEnhancedBuildingMesh both throw, and
\* return no mesh, for a building whose type is neither flat nor dualPitch.
C21_UnknownTypeThrows ==
  (ev.op \in {"createBuildingMesh", "createEnhancedBuildingMesh"}
     /\ ev.h \notin RoofTypes) => ev.m.thrown

\* C22: the clamps are idempotent.  The footprint floor gives max(1, v),
\* the ridge clamp max(MIN_RIDGE_HEIGHT, min(v, MAX_RIDGE_HEIGHT)); applying
\* either to its own result gives that result again, and a value already
\* in range is returned unchanged.
C22_ClampsIdempotent ==
  /\ ev.op = "minSize" =>
       /\ ev.p.z = Max(Unit, ev.p.x)
       /\ MinSize(ev.p.z) = ev.p.z
       /\ ev.p.x >= Unit => ev.p.z = ev.p.x
  /\ ev.op = "clampRidge" =>
       /\ ev.p.z = Max(MIN_RIDGE_HEIGHT, Min(ev.p.x, MAX_RIDGE_HEIGHT))
       /\ ClampRidge(ev.p.z) = ev.p.z
       /\ (MIN_RIDGE_HEIGHT <= ev.p.x /\ ev.p.x <= MAX_RIDGE_HEIGHT) =>
            ev.p.z = ev.p.x

\* C22 witness: the ridge clamp has brought 5 down to the maximum
C22_Witness ==
  ev.op = "clampRidge" /\ ev.p.x = 5 * Unit /\ ev.p.z = MAX_RIDGE_HEIGHT

\* C23: at most one ghost mesh is in the scene at any time, and one is there
\* only while placementMode is true and a roof type is chosen; a change of
\* placementMode or of currentRoofType disposes the ghost there was before
\* the new one is created, and after a placement no ghost remains.
C23_OneGhost ==
  /\ [](/\ view.ghosts = (IF view.ghost.exists THEN 1 ELSE 0)
        /\ view.ghost.exists =>
             /\ store.placementMode
             /\ store.currentRoofType \in RoofTypes
             /\ view.ghost.type = store.currentRoofType)
  /\ [][ Len(store'.buildings) > Len(store.buildings) =>
           ~view'.ghost.exists /\ view'.ghosts = 0 ]_vars

\* C23 witness: a second roof button has replaced the ghost of the first,
\* with one building placed before
C23_Witness ==
  /\ ev.op = "addRoof" /\ view.ghost.exists /\ view.ghosts = 1
  /\ view.ghost.type = "dualPitch" /\ Len(store.buildings) = 1

\* C24: once the building that was selected at the mouse-down of a handle
\* drag is no longer the selected one (deselected, another one selected, or
\* deleted), a mouse-move of that drag leaves the ridgeHeight of that
\* building as it was.
C24_StaleDragWritesNothing ==
  [][ (/\ ev'.op = "handleMouseMove"
       /\ elevation.drag.isDragging
       /\ elevation.drag.id # Null
       /\ store.selectedBuildingId # elevation.drag.id
       /\ view.rendered.selectedBuildingId = store.selectedBuildingId) =>
        LET a0 == FindIn(store.heap, store.buildings, elevation.drag.id)
            a1 == FindIn(store'.heap, store'.buildings, elevation.drag.id)
        IN (a0 # Null /\ a1 # Null) =>
             store'.heap[a1].ridgeHeight = store.heap[a0].ridgeHeight ]_vars

\* C25: with the pointer of an edge drag beyond the building's centre, on
\* the side opposite to the handle, the dimension the handle resizes is the
\* minimum 1, wherever beyond the centre the pointer is.
C25_NoFlip ==
  [][ (ev'.op = "edgeResize" /\ Attached(editor)) =>
        LET h == ev'.h
            loc == WorldToLocal(ev'.p, editor.meta[h].m)
            b == store'.heap[editor'.building]
            c == IF Axis(h) = "x" THEN loc.x ELSE loc.z
            side == IF Axis(h) = "x" THEN OriginalPosition(h).x
                    ELSE OriginalPosition(h).z
            written == IF Axis(h) = "x" THEN b.width ELSE b.length
        IN c * side < 0 => written = Unit ]_vars

\* C26: after every drag-end of the position, rotation or scale gizmo of
\* the gizmo-manager version, every building of the store is at least 1
\* wide and 1 long, whatever scaling the scale gizmo left on the mesh.
C26_SyncKeepsMinimum ==
  ev.op = "managerDragEnd" =>
    \A a \in Range(store.buildings) :
      store.heap[a].width >= Unit /\ store.heap[a].length >= Unit

\* the gizmos live on the mesh of building id
GizmosOn(id) ==
  (IF view.gm.positionGizmoEnabled /\ view.gm.attachedMesh = id
   THEN {"position"} ELSE {})
  \cup (IF view.gm.rotationGizmoEnabled /\ view.gm.attachedMesh = id
        THEN {"rotation"} ELSE {})
  \cup (IF view.gm.scaleGizmoEnabled /\ view.gm.attachedMesh = id
        THEN {"scale"} ELSE {})
  \cup (IF view.gm.plane.exists /\ view.gm.plane.attachedMesh = id
        THEN {"plane"} ELSE {})

\* C27: after enableTranslateGizmo, enableRotateGizmo or enableScaleGizmo on
\* a selected building, exactly one gizmo is live on the building's mesh:
\* the position gizmo after translate, the plane rotation gizmo after
\* rotate, the scale gizmo after scale.
C27_OneGizmoLive ==
  (/\ ev.op \in {"enableTranslateGizmo", "enableRotateGizmo", "enableScaleGizmo"}
   /\ view.rendered.selectedBuildingId # Null
   /\ view.rendered.selectedBuildingId \in DOMAIN view.meshes) =>
     GizmosOn(view.rendered.selectedBuildingId) =
       {IF ev.op = "enableTranslateGizmo" THEN "position"
        ELSE IF ev.op = "enableRotateGizmo" THEN "plane" ELSE "scale"}

\* the buildings added since the click being delivered began
AddedByClick == Len(store.buildings) - view.click.before

\* C28 as stated: once the three handlers have seen a click on the ground
\* in placement mode, exactly one building has been added.
C28_AsStated ==
  (view.click.started /\ view.click.pending = {}) => AddedByClick = 1

\* C28, amended: at no point of the delivery of one click has more than one
\* building been added, in whatever order the three handlers and the
\* render that copies placementMode into placementModeRef run; and once
\* the three handlers have seen the click, exactly one has been added when
\* the last accepted placement click was at least 300 ms old as the click
\* began.
C28_OneBuildingPerClick ==
  view.click.started =>
    /\ AddedByClick \in {0, 1}
    /\ (view.click.pending = {} /\ view.click.fresh) => AddedByClick = 1

\* C28 witness: the canvas click listener, the last of the three handlers
\* of a click that began less than 300 ms after the previous placement,
\* has just added the click's one building, a second one, and its render
\* is still to come.
C28_Witness ==
  /\ view.click.started /\ view.click.pending = {} /\ ~view.click.fresh
  /\ ev.op = "clickCanvasClick" /\ "buildings" \in store.dirty
  /\ AddedByClick = 1 /\ Len(store.buildings) = 2
  /\ view.placementModeRef

\* the drag-start world matrix of handle h is not that of the mesh the
\* editor is attached to now: it was captured for another building
StaleBaseline(h) ==
  /\ Attached(editor) /\ editor.meta[h].set
  /\ LET mesh == view.meshes[editor.targetMesh] IN
       editor.meta[h].m # [px |-> mesh.px, pz |-> mesh.pz, rot |-> mesh.rot]

\* C29: once the editor has been attached to a different building during a
\* resize drag, no drag-move step of that drag changes the width or the
\* length of the newly attached building: nothing computed from the
\* baseline captured for the previous building is written to it.
C29_NoStaleBaseline ==
  [][ (ev'.op = "localResize" /\ StaleBaseline(pointer.h)) =>
        LET old == store.heap[editor.building]
            new == store'.heap[editor.building]
        IN new.width = old.width /\ new.length = old.length ]_vars

\* the ridge heights of the buildings of the store, in order
RidgeHeights(st) ==
  [i \in DOMAIN st.buildings |-> st.heap[st.buildings[i]].ridgeHeight]

\* C30: the handle drag of the elevation view is Idle -> Dragging -> Idle.
\* While the mouse button is up isDragging is false and neither window
\* listener is registered, and while it is down on a handle both hold;
\* after mouse-up, no mouse-move changes a ridge height until the next
\* mouse-down on a handle; and every mouse-down on a handle takes the mouse
\* position and the ridge height of the selected building at that
\* mouse-down as the baseline of the new drag, whatever the previous drag
\* left.
C30_DragSession ==
  /\ [](IF pointer.ctl = "ridge"
        THEN elevation.drag.isDragging /\ elevation.drag.listening
        ELSE ~elevation.drag.isDragging /\ ~elevation.drag.listening)
  /\ [][ /\ (ev'.op = "windowMouseMove" /\ pointer.ctl # "ridge") =>
              RidgeHeights(store') = RidgeHeights(store)
         /\ ev'.op = "handleGrab" =>
              LET cur == FindIn(store.heap, store.buildings,
                                store.selectedBuildingId)
              IN /\ elevation'.drag.y0 = elevation'.clientY
                 /\ elevation'.drag.h0 =
                      ClampRidge(store.heap[RenderedSelection].ridgeHeight)
                 /\ store.dirty = {} =>
                      elevation'.drag.h0 = ClampRidge(store.heap[cur].ridgeHeight)
       ]_vars

\* C30 witness: the second drag has begun on a ridge that the first drag
\* raised from 1 to 3, with 3 as its baseline, the mouse elsewhere than at
\* the first mouse-down.
C30_Witness ==
  /\ ev.op = "handleGrab" /\ elevation.drags = 2
  /\ pointer.ctl = "ridge" /\ elevation.drag.isDragging
  /\ elevation.drag.h0 = 3 * Unit
  /\ elevation.drag.y0 = elevation.clientY /\ elevation.drag.y0 # 0
  /\ store.dirty = {}

\* the buildings of store st, in order
BuildingsOf(st) == [i \in DOMAIN st.buildings |-> st.heap[st.buildings[i]]]

\* C31: updateBuilding(id, updates) leaves the collection as long as it was
\* and in the same order; the building with the id has the fields of
\* updates at their new values and every other field as before; every
\* other building is unchanged; and when no building has the id, one
\* deleted before included, the collection is unchanged.  The selection is
\* not touched.
C31_UpdateFrame ==
  [][ ev'.op = "storeUpdate" =>
        LET old == BuildingsOf(store)
            new == BuildingsOf(store')
            updates == StoreUpdates(ev'.h, ev'.p)
        IN /\ DOMAIN new = DOMAIN old
           /\ \A i \in DOMAIN old :
                IF old[i].id = ev'.m
                THEN \A f \in DOMAIN old[i] :
                       new[i][f] = (IF f \in DOMAIN updates THEN updates[f]
                                    ELSE old[i][f])
                ELSE new[i] = old[i]
           /\ (\A i \in DOMAIN old : old[i].id # ev'.m) => new = old
           /\ store'.selectedBuildingId = store.selectedBuildingId
    ]_vars

\* C31 witness: after a building was deleted, an update of its id has left
\* the remaining building alone in the collection.
C31_Witness ==
  /\ ev.op = "storeUpdate" /\ ev.m < store.nextId
  /\ Len(store.buildings) = 1
  /\ \A a \in Range(store.buildings) : store.heap[a].id # ev.m

\* C32: after any sequence of addBuilding, selectBuilding from the toolbar's
\* list, deleteBuilding and updateBuilding, selectedBuildingId is null or
\* the id of a building of the collection; deleting the selected building
\* sets it to null and deleting another building leaves it as it was.
C32_SelectionValid ==
  /\ [](\/ store.selectedBuildingId = Null
        \/ \E a \in Range(store.buildings) :
             store.heap[a].id = store.selectedBuildingId)
  /\ [][ ev'.op = "storeDelete" =>
           /\ \A a \in Range(store'.buildings) : store'.heap[a].id # ev'.m
           /\ store'.selectedBuildingId =
                (IF store.selectedBuildingId = ev'.m THEN Null
                 ELSE store.selectedBuildingId) ]_vars

\* C32 witness: of two buildings the one not selected has been deleted, and
\* the other is still selected.
C32_Witness ==
  /\ ev.op = "storeDelete" /\ Len(store.buildings) = 1
  /\ store.selectedBuildingId # Null /\ store.selectedBuildingId # ev.m
  /\ store.heap[store.buildings[1]].id = store.selectedBuildingId

\* C33: addBuilding(b) leaves every building of the collection where it
\* was with all its fields, puts b after them and selects b.
C33_AddFrame ==
  [][ ev'.op = "storeAdd" =>
        LET old == BuildingsOf(store)
            new == BuildingsOf(store')
        IN /\ Len(new) = Len(old) + 1
           /\ \A i \in DOMAIN old : new[i] = old[i]
           /\ new[Len(new)] = PointerDownBuilding(ev'.m, ev'.h, ev'.p)
           /\ \A i \in DOMAIN old : old[i].id # ev'.m
           /\ store'.selectedBuildingId = ev'.m
    ]_vars

\* C33 witness: a second building has been added after the first was
\* resized and turned, and the first is as the updates left it.
C33_Witness ==
  /\ ev.op = "storeAdd" /\ Len(store.buildings) = 2
  /\ store.selectedBuildingId = store.heap[store.buildings[2]].id
  /\ LET b == store.heap[store.buildings[1]] IN
       /\ b.id # store.selectedBuildingId
       /\ b.rotation = 1 /\ b.width # 3 * Unit

\* where handle h was in the local frame when its drag began
StartPosition(h, md) ==
  [x |-> (OriginalPosition(h).x * md.initialWidth) \div 2,
   z |-> (OriginalPosition(h).z * md.initialLength) \div 2]

\* C34: the width and the length a drag-move of a corner or an edge handle
\* leaves are those the drag gives when it goes from its start straight to
\* the same pointer position in the local frame, whatever positions the
\* pointer visited before.
C34_PathIndependent ==
  [][ (/\ ev'.op = "localResize" /\ Attached(editor)
       /\ editor.meta[pointer.h].set) =>
        LET h == pointer.h
            md == editor.meta[h]
            straight == IF h \in Corners
                        THEN CornerSize(md, ev'.p, StartPosition(h, md))
                        ELSE EdgeSize(Axis(h), md, ev'.p, StartPosition(h, md))
            b == store'.heap[editor.building]
        IN b.width = straight.width /\ b.length = straight.length ]_vars

=============================================================================
